---- MODULE Spec2Model ----
(***************************************************************************)
(* The stack-based grounding engine of ProbLog (problog/engine_stack.py):  *)
(* the trampoline driver StackBasedEngine.execute, the evaluation records  *)
(* (EvalOr, EvalAnd, EvalNot, EvalDefine), the definition cache and the    *)
(* cycle protocol, run on a small set of compiled clause databases.        *)
(*                                                                         *)
(* Encoding of Python values.                                              *)
(*   None as a slot index, parent, identifier or ground node is -1.        *)
(*   A term in a context is an integer: c >= 1 is the constant c, 0 is an  *)
(*   unbound slot (Python None), -k is the k-th unbound variable of a call.*)
(*   A constant >= 100 names a callable atom (the argument of call/1).     *)
(*   An argument of a compiled node is c >= 1 (constant) or -i (the i-th   *)
(*   variable of the clause frame).                                        *)
(*   A functor is the sequence of its characters.                          *)
(***************************************************************************)
EXTENDS Integers, Sequences, FiniteSets, TLC

VARIABLES
    prog,        \* name of the program the engine runs against
    database,    \* the compiled program: clause database, callable terms, queries
    unknown,     \* StackBasedEngine.unknown
    stack,       \* StackBasedEngine.stack: slot index -> record or NoRec
    stack_size,  \* StackBasedEngine.stack_size
    pointer,     \* StackBasedEngine.pointer
    cycle_root,  \* StackBasedEngine.cycle_root (slot index of the record, or None)
    cache,       \* target._cache: [ground, non_ground, active]
    target,      \* the ground formula: sequence of nodes, node id = index
    tlog,        \* every operation invoked on the target, in order
    elog,        \* engine events: Define activations, cache writes
    frames,      \* the running execute calls, innermost last
    status,      \* "idle", "running", "returned", "error"
    error,       \* the exception that ended the last execute
    history      \* outcome of every finished top-level execute

vars == <<prog, database, unknown, stack, stack_size, pointer, cycle_root, cache, target,
          tlog, elog, frames, status, error, history>>

None == -1
NODE_TRUE == 0
NODE_FALSE == None
UNKNOWN_ERROR == 0
UNKNOWN_FAIL == 1
InitialStackSize == 128
\* node ids of the built-ins eval_call short-circuits, and of call/1
BUILTIN_TRUE == -1
BUILTIN_FAIL == -2
BUILTIN_FALSE == -3
BUILTIN_NEQ == -5
BUILTIN_FINDALL == -6
CALL1 == -100

\* Bounds of the model
MaxRuns == 2          \* top-level execute calls per behaviour
MaxChain == 3         \* functions added to one transform chain

Min(a, b) == IF a <= b THEN a ELSE b
Last(q) == q[Len(q)]
Front(q) == SubSeq(q, 1, Len(q) - 1)
Reverse(q) == [i \in 1..Len(q) |-> q[Len(q) + 1 - i]]
Range(q) == {q[i] : i \in 1..Len(q)}

(***************************************************************************)
(* Compiled database nodes (the input of the engine).                      *)
(***************************************************************************)
DBNode(t, f, a, p, cs, c, vc, d, loc) ==
    [type |-> t, functor |-> f, args |-> a, probability |-> p, children |-> cs,
     child |-> c, varcount |-> vc, defnode |-> d, location |-> loc]
FactNode(f, a, p, loc)        == DBNode("fact", f, a, p, <<>>, None, 0, None, loc)
ClauseNode(f, a, c, vc, loc)  == DBNode("clause", f, a, "", <<>>, c, vc, None, loc)
ConjNode(cs, loc)             == DBNode("conj", <<>>, <<>>, "", cs, None, 0, None, loc)
DisjNode(cs, loc)             == DBNode("disj", <<>>, <<>>, "", cs, None, 0, None, loc)
NegNode(c, loc)               == DBNode("neg", <<>>, <<>>, "", <<>>, c, 0, None, loc)
CallNode(f, a, d, loc)        == DBNode("call", f, a, "", <<>>, None, 0, d, loc)
DefineNode(f, n, cs, loc)     == DBNode("define", f, [i \in 1..n |-> 0], "", cs, None, 0, None, loc)
\* a predicate that is referenced but has no clause: getNode yields no node

Atom(f) == [functor |-> f, args |-> <<>>]
Query(f, a) == [functor |-> f, args |-> a]

\* p :- p.
DB_cyc ==
   << DefineNode(<<"p">>, 0, <<3>>, 1),                \* 1
      CallNode(<<"p">>, <<>>, 1, 1),                   \* 2
      ClauseNode(<<"p">>, <<>>, 2, 0, 1) >>            \* 3

\* 0.4::p.  p :- p.
DB_cycf ==
   << DefineNode(<<"p">>, 0, <<2, 4>>, 1),             \* 1
      FactNode(<<"p">>, <<>>, "0.4", 1),               \* 2
      CallNode(<<"p">>, <<>>, 1, 2),                   \* 3
      ClauseNode(<<"p">>, <<>>, 3, 0, 2) >>            \* 4

\* p :- \+ p.
DB_neg ==
   << DefineNode(<<"p">>, 0, <<4>>, 1),                \* 1
      CallNode(<<"p">>, <<>>, 1, 1),                   \* 2
      NegNode(2, 1),                                   \* 3
      ClauseNode(<<"p">>, <<>>, 3, 0, 1) >>            \* 4

\* 0.4::p.  p :- \+ p.
DB_negf ==
   << DefineNode(<<"p">>, 0, <<2, 5>>, 1),             \* 1
      FactNode(<<"p">>, <<>>, "0.4", 1),               \* 2
      CallNode(<<"p">>, <<>>, 1, 2),                   \* 3
      NegNode(3, 2),                                   \* 4
      ClauseNode(<<"p">>, <<>>, 4, 0, 2) >>            \* 5

\* p :- call(p).
DB_ind ==
   << CallNode(<<"c","a","l","l">>, <<100>>, CALL1, 1), \* 1
      DefineNode(<<"p">>, 0, <<3>>, 1),                \* 2
      ClauseNode(<<"p">>, <<>>, 1, 0, 1) >>            \* 3

\* 0.4::p.  p :- call(p).
DB_indf ==
   << DefineNode(<<"p">>, 0, <<2, 4>>, 1),             \* 1
      FactNode(<<"p">>, <<>>, "0.4", 1),               \* 2
      CallNode(<<"c","a","l","l">>, <<100>>, CALL1, 2), \* 3
      ClauseNode(<<"p">>, <<>>, 3, 0, 2) >>            \* 4

\* 0.5::f(1).  0.5::f(2).  g(X) :- f(X).  h :- g(1), g(1).  k(X) :- f(X), f(3).
DB_tab ==
   << DefineNode(<<"f">>, 1, <<2, 3>>, 1),             \* 1
      FactNode(<<"f">>, <<1>>, "0.5", 1),              \* 2
      FactNode(<<"f">>, <<2>>, "0.5", 2),              \* 3
      CallNode(<<"f">>, <<-1>>, 1, 3),                 \* 4
      DefineNode(<<"g">>, 1, <<6>>, 3),                \* 5
      ClauseNode(<<"g">>, <<-1>>, 4, 1, 3),            \* 6
      CallNode(<<"g">>, <<1>>, 5, 4),                  \* 7
      CallNode(<<"g">>, <<1>>, 5, 4),                  \* 8
      ConjNode(<<7, 8>>, 4),                           \* 9
      DefineNode(<<"h">>, 0, <<11>>, 4),               \* 10
      ClauseNode(<<"h">>, <<>>, 9, 0, 4),              \* 11
      CallNode(<<"f">>, <<-1>>, 1, 5),                 \* 12
      CallNode(<<"f">>, <<3>>, 1, 5),                  \* 13
      ConjNode(<<12, 13>>, 5),                         \* 14
      DefineNode(<<"k">>, 1, <<16>>, 5),               \* 15
      ClauseNode(<<"k">>, <<-1>>, 14, 1, 5) >>         \* 16

\* 0.5::f.  _nocache_g :- f.  h :- _nocache_g, _nocache_g.
DB_noc ==
   << DefineNode(<<"f">>, 0, <<2>>, 1),                \* 1
      FactNode(<<"f">>, <<>>, "0.5", 1),               \* 2
      CallNode(<<"f">>, <<>>, 1, 2),                   \* 3
      DefineNode(<<"_","n","o","c","a","c","h","e","_","g">>, 0, <<5>>, 2),    \* 4
      ClauseNode(<<"_","n","o","c","a","c","h","e","_","g">>, <<>>, 3, 0, 2),  \* 5
      CallNode(<<"_","n","o","c","a","c","h","e","_","g">>, <<>>, 4, 3),       \* 6
      CallNode(<<"_","n","o","c","a","c","h","e","_","g">>, <<>>, 4, 3),       \* 7
      ConjNode(<<6, 7>>, 3),                           \* 8
      DefineNode(<<"h">>, 0, <<10>>, 3),               \* 9
      ClauseNode(<<"h">>, <<>>, 8, 0, 3) >>            \* 10

\* 0.5::p.  0.5::q.  r :- p, q.  r :- p.
DB_s2 ==
   << DefineNode(<<"p">>, 0, <<2>>, 1),                \* 1
      FactNode(<<"p">>, <<>>, "0.5", 1),               \* 2
      DefineNode(<<"q">>, 0, <<4>>, 2),                \* 3
      FactNode(<<"q">>, <<>>, "0.5", 2),               \* 4
      CallNode(<<"p">>, <<>>, 1, 3),                   \* 5
      CallNode(<<"q">>, <<>>, 3, 3),                   \* 6
      ConjNode(<<5, 6>>, 3),                           \* 7
      DefineNode(<<"r">>, 0, <<9, 11>>, 3),            \* 8
      ClauseNode(<<"r">>, <<>>, 7, 0, 3),              \* 9
      CallNode(<<"p">>, <<>>, 1, 4),                   \* 10
      ClauseNode(<<"r">>, <<>>, 10, 0, 4) >>           \* 11

\* 0.2::a.  b :- \+ a.
DB_s3 ==
   << DefineNode(<<"a">>, 0, <<2>>, 1),                \* 1
      FactNode(<<"a">>, <<>>, "0.2", 1),               \* 2
      CallNode(<<"a">>, <<>>, 1, 2),                   \* 3
      NegNode(3, 2),                                   \* 4
      DefineNode(<<"b">>, 0, <<6>>, 2),                \* 5
      ClauseNode(<<"b">>, <<>>, 4, 0, 2) >>            \* 6

\* a :- b.  b :- a.  b :- c.  0.3::c.
DB_mut ==
   << DefineNode(<<"b">>, 0, <<6, 9>>, 2),             \* 1
      CallNode(<<"b">>, <<>>, 1, 1),                   \* 2
      DefineNode(<<"a">>, 0, <<4>>, 1),                \* 3
      ClauseNode(<<"a">>, <<>>, 2, 0, 1),              \* 4
      CallNode(<<"a">>, <<>>, 3, 2),                   \* 5
      ClauseNode(<<"b">>, <<>>, 5, 0, 2),              \* 6
      DefineNode(<<"c">>, 0, <<10>>, 4),               \* 7
      CallNode(<<"c">>, <<>>, 7, 3),                   \* 8
      ClauseNode(<<"b">>, <<>>, 8, 0, 3),              \* 9
      FactNode(<<"c">>, <<>>, "0.3", 4) >>             \* 10

\* 0.4::a.  p :- (a ; p).
DB_orc ==
   << DefineNode(<<"a">>, 0, <<2>>, 1),                \* 1
      FactNode(<<"a">>, <<>>, "0.4", 1),               \* 2
      CallNode(<<"a">>, <<>>, 1, 2),                   \* 3
      DefineNode(<<"p">>, 0, <<7>>, 2),                \* 4
      CallNode(<<"p">>, <<>>, 4, 2),                   \* 5
      DisjNode(<<3, 5>>, 2),                           \* 6
      ClauseNode(<<"p">>, <<>>, 6, 0, 2) >>            \* 7

\* 0.5::e(1,2).  0.5::e(2,1).  t(X,Y) :- e(X,Y).  t(X,Y) :- e(X,Z), t(Z,Y).
DB_path ==
   << DefineNode(<<"e">>, 2, <<2, 3>>, 1),             \* 1
      FactNode(<<"e">>, <<1, 2>>, "0.5", 1),           \* 2
      FactNode(<<"e">>, <<2, 1>>, "0.5", 2),           \* 3
      CallNode(<<"e">>, <<-1, -2>>, 1, 3),             \* 4
      DefineNode(<<"t">>, 2, <<6, 10>>, 3),            \* 5
      ClauseNode(<<"t">>, <<-1, -2>>, 4, 2, 3),        \* 6
      CallNode(<<"e">>, <<-1, -3>>, 1, 4),             \* 7
      CallNode(<<"t">>, <<-3, -2>>, 5, 4),             \* 8
      ConjNode(<<7, 8>>, 4),                           \* 9
      ClauseNode(<<"t">>, <<-1, -2>>, 9, 3, 4) >>      \* 10

\* a :- b.  b :- b.  b :- a.  0.3::b.
DB_swap ==
   << DefineNode(<<"b">>, 0, <<6, 8, 9>>, 2),          \* 1
      CallNode(<<"b">>, <<>>, 1, 1),                   \* 2
      DefineNode(<<"a">>, 0, <<4>>, 1),                \* 3
      ClauseNode(<<"a">>, <<>>, 2, 0, 1),              \* 4
      CallNode(<<"b">>, <<>>, 1, 2),                   \* 5
      ClauseNode(<<"b">>, <<>>, 5, 0, 2),              \* 6
      CallNode(<<"a">>, <<>>, 3, 3),                   \* 7
      ClauseNode(<<"b">>, <<>>, 7, 0, 3),              \* 8
      FactNode(<<"b">>, <<>>, "0.3", 4) >>             \* 9

\* 0.3::a.  p :- call(a).
DB_calla ==
   << DefineNode(<<"a">>, 0, <<2>>, 1),                \* 1
      FactNode(<<"a">>, <<>>, "0.3", 1),               \* 2
      CallNode(<<"c","a","l","l">>, <<100>>, CALL1, 2), \* 3
      DefineNode(<<"p">>, 0, <<5>>, 2),                \* 4
      ClauseNode(<<"p">>, <<>>, 3, 0, 2) >>            \* 5

\* p :- q.  r :- call(q).  0.5::s(1).      (q has no clause)
DB_unk ==
   << DBNode("NoneType", <<"q">>, <<>>, "", <<>>, None, 0, None, 0),   \* 1  (undefined)
      CallNode(<<"q">>, <<>>, 1, 1),                   \* 2
      DefineNode(<<"p">>, 0, <<4>>, 1),                \* 3
      ClauseNode(<<"p">>, <<>>, 2, 0, 1),              \* 4
      CallNode(<<"c","a","l","l">>, <<100>>, CALL1, 2), \* 5
      DefineNode(<<"r">>, 0, <<7>>, 2),                \* 6
      ClauseNode(<<"r">>, <<>>, 5, 0, 2),              \* 7
      DefineNode(<<"s">>, 1, <<9>>, 3),                \* 8
      FactNode(<<"s">>, <<1>>, "0.5", 3) >>            \* 9

\* 0.5::g.  g :- \+ e.  e :- e, g.  0.5::e.
DB_negc ==
   << DefineNode(<<"g">>, 0, <<2, 6>>, 1),             \* 1
      FactNode(<<"g">>, <<>>, "0.5", 1),               \* 2
      DefineNode(<<"e">>, 0, <<10, 11>>, 3),           \* 3
      CallNode(<<"e">>, <<>>, 3, 2),                   \* 4
      NegNode(4, 2),                                   \* 5
      ClauseNode(<<"g">>, <<>>, 5, 0, 2),              \* 6
      CallNode(<<"e">>, <<>>, 3, 3),                   \* 7
      CallNode(<<"g">>, <<>>, 1, 3),                   \* 8
      ConjNode(<<7, 8>>, 3),                           \* 9
      ClauseNode(<<"e">>, <<>>, 9, 0, 3),              \* 10
      FactNode(<<"e">>, <<>>, "0.5", 4) >>             \* 11

\* 0.4::a.  p :- p.  q :- (p ; a).
DB_sib ==
   << DefineNode(<<"a">>, 0, <<2>>, 1),                \* 1
      FactNode(<<"a">>, <<>>, "0.4", 1),               \* 2
      DefineNode(<<"p">>, 0, <<5>>, 2),                \* 3
      CallNode(<<"p">>, <<>>, 3, 2),                   \* 4
      ClauseNode(<<"p">>, <<>>, 4, 0, 2),              \* 5
      CallNode(<<"p">>, <<>>, 3, 3),                   \* 6
      CallNode(<<"a">>, <<>>, 1, 3),                   \* 7
      DisjNode(<<6, 7>>, 3),                           \* 8
      DefineNode(<<"q">>, 0, <<10>>, 3),               \* 9
      ClauseNode(<<"q">>, <<>>, 8, 0, 3) >>            \* 10

\* 0.5::a(2).  a(X) :- b(Y).  b(X) :- a(Y), a(2).
DB_ord ==
   << DefineNode(<<"a">>, 1, <<2, 5>>, 1),             \* 1
      FactNode(<<"a">>, <<2>>, "0.5", 1),              \* 2
      DefineNode(<<"b">>, 1, <<9>>, 3),                \* 3
      CallNode(<<"b">>, <<-2>>, 3, 2),                 \* 4
      ClauseNode(<<"a">>, <<-1>>, 4, 2, 2),            \* 5
      CallNode(<<"a">>, <<-2>>, 1, 3),                 \* 6
      CallNode(<<"a">>, <<2>>, 1, 3),                  \* 7
      ConjNode(<<6, 7>>, 3),                           \* 8
      ClauseNode(<<"b">>, <<-1>>, 8, 2, 3) >>          \* 9

\* a :- b.  0.5::a.  b :- b, c.  0.5::b.  c :- b.  c :- a.
DB_inv ==
   << DefineNode(<<"b">>, 0, <<10, 11>>, 3),           \* 1
      CallNode(<<"b">>, <<>>, 1, 1),                   \* 2
      DefineNode(<<"a">>, 0, <<4, 5>>, 1),             \* 3
      ClauseNode(<<"a">>, <<>>, 2, 0, 1),              \* 4
      FactNode(<<"a">>, <<>>, "0.5", 2),               \* 5
      CallNode(<<"b">>, <<>>, 1, 3),                   \* 6
      DefineNode(<<"c">>, 0, <<13, 15>>, 5),           \* 7
      CallNode(<<"c">>, <<>>, 7, 3),                   \* 8
      ConjNode(<<6, 8>>, 3),                           \* 9
      ClauseNode(<<"b">>, <<>>, 9, 0, 3),              \* 10
      FactNode(<<"b">>, <<>>, "0.5", 4),               \* 11
      CallNode(<<"b">>, <<>>, 1, 5),                   \* 12
      ClauseNode(<<"c">>, <<>>, 12, 0, 5),             \* 13
      CallNode(<<"a">>, <<>>, 3, 6),                   \* 14
      ClauseNode(<<"c">>, <<>>, 14, 0, 6) >>           \* 15

\* 0.5::a(1).  a(X) :- (a(1) ; a(Y)).
DB_fwd ==
   << DefineNode(<<"a">>, 1, <<2, 6>>, 1),             \* 1
      FactNode(<<"a">>, <<1>>, "0.5", 1),              \* 2
      CallNode(<<"a">>, <<1>>, 1, 2),                  \* 3
      CallNode(<<"a">>, <<-2>>, 1, 2),                 \* 4
      DisjNode(<<3, 4>>, 2),                           \* 5
      ClauseNode(<<"a">>, <<-1>>, 5, 2, 2) >>          \* 6

\* a :- b, c.  b :- b.  b :- a.  0.3::b.  0.6::c.
DB_swap2 ==
   << DefineNode(<<"b">>, 0, <<9, 11, 12>>, 2),        \* 1
      CallNode(<<"b">>, <<>>, 1, 1),                   \* 2
      DefineNode(<<"c">>, 0, <<13>>, 5),               \* 3
      CallNode(<<"c">>, <<>>, 3, 1),                   \* 4
      ConjNode(<<2, 4>>, 1),                           \* 5
      DefineNode(<<"a">>, 0, <<7>>, 1),                \* 6
      ClauseNode(<<"a">>, <<>>, 5, 0, 1),              \* 7
      CallNode(<<"b">>, <<>>, 1, 2),                   \* 8
      ClauseNode(<<"b">>, <<>>, 8, 0, 2),              \* 9
      CallNode(<<"a">>, <<>>, 6, 3),                   \* 10
      ClauseNode(<<"b">>, <<>>, 10, 0, 3),             \* 11
      FactNode(<<"b">>, <<>>, "0.3", 4),               \* 12
      FactNode(<<"c">>, <<>>, "0.6", 5) >>             \* 13

(***************************************************************************)
(* The programs: database, the callable atoms (constant 100 is terms[1]),  *)
(* the queries a caller may pose, and whether the program is free of       *)
(* negative cycles, indirect-call cycles and unknown predicates.           *)
(***************************************************************************)
Program(db, terms, queries, clean) ==
    [db |-> db, terms |-> terms, queries |-> queries, clean |-> clean]

\* 0.5::f(1).  0.5::f(2).  n0 :- \+ f(3).  n1 :- \+ true.  n2 :- \+ f(_).
\* n3 :- \+ f(1).  n4 :- \+ fail.
DB_nots ==
   << DefineNode(<<"f">>, 1, <<2, 3>>, 1),             \* 1
      FactNode(<<"f">>, <<1>>, "0.5", 1),              \* 2
      FactNode(<<"f">>, <<2>>, "0.5", 2),              \* 3
      CallNode(<<"f">>, <<3>>, 1, 3),                  \* 4
      NegNode(4, 3),                                   \* 5
      DefineNode(<<"n","0">>, 0, <<7>>, 3),            \* 6
      ClauseNode(<<"n","0">>, <<>>, 5, 0, 3),          \* 7
      CallNode(<<"t","r","u","e">>, <<>>, BUILTIN_TRUE, 4),   \* 8
      NegNode(8, 4),                                   \* 9
      DefineNode(<<"n","1">>, 0, <<11>>, 4),           \* 10
      ClauseNode(<<"n","1">>, <<>>, 9, 0, 4),          \* 11
      CallNode(<<"f">>, <<-1>>, 1, 5),                 \* 12
      NegNode(12, 5),                                  \* 13
      DefineNode(<<"n","2">>, 0, <<15>>, 5),           \* 14
      ClauseNode(<<"n","2">>, <<>>, 13, 1, 5),         \* 15
      CallNode(<<"f">>, <<1>>, 1, 6),                  \* 16
      NegNode(16, 6),                                  \* 17
      DefineNode(<<"n","3">>, 0, <<19>>, 6),           \* 18
      ClauseNode(<<"n","3">>, <<>>, 17, 0, 6),         \* 19
      CallNode(<<"f","a","i","l">>, <<>>, BUILTIN_FAIL, 7),   \* 20
      NegNode(20, 7),                                  \* 21
      DefineNode(<<"n","4">>, 0, <<23>>, 7),           \* 22
      ClauseNode(<<"n","4">>, <<>>, 21, 0, 7) >>       \* 23

\* 0.5::d(27).  d(k) :- \+ \+ \+ \+ d(k+1).  for k = 1..26: a chain that needs
\* 131 records at once, more than the initial capacity of the arena
DB_deep ==
   LET K == 26
   IN [i \in 1..(6 * K + 2) |->
         IF i = 1
         THEN DefineNode(<<"d">>, 1, [k \in 1..(K + 1) |-> IF k <= K THEN 6 * k + 1
                                                          ELSE 6 * K + 2], 1)
         ELSE IF i = 6 * K + 2 THEN FactNode(<<"d">>, <<K + 1>>, "0.5", K + 1)
         ELSE LET k == ((i - 2) \div 6) + 1
                  r == (i - 2) % 6
              IN IF r = 0 THEN CallNode(<<"d">>, <<k + 1>>, 1, k)
                 ELSE IF r = 5 THEN ClauseNode(<<"d">>, <<k>>, i - 1, 0, k)
                 ELSE NegNode(i - 1, k)]

Programs ==
    [ cyc   |-> Program(DB_cyc,  <<>>, {Query(<<"p">>, <<>>)}, TRUE),
      cycf  |-> Program(DB_cycf, <<>>, {Query(<<"p">>, <<>>)}, TRUE),
      neg   |-> Program(DB_neg,  <<>>, {Query(<<"p">>, <<>>)}, FALSE),
      negf  |-> Program(DB_negf, <<>>, {Query(<<"p">>, <<>>)}, FALSE),
      ind   |-> Program(DB_ind,  <<Atom(<<"p">>)>>, {Query(<<"p">>, <<>>)}, FALSE),
      indf  |-> Program(DB_indf, <<Atom(<<"p">>)>>, {Query(<<"p">>, <<>>)}, FALSE),
      tab   |-> Program(DB_tab,  <<>>, {Query(<<"h">>, <<>>), Query(<<"g">>, <<0>>),
                                         Query(<<"g">>, <<1>>), Query(<<"g">>, <<3>>),
                                         Query(<<"k">>, <<0>>)}, TRUE),
      noc   |-> Program(DB_noc,  <<>>, {Query(<<"h">>, <<>>)}, TRUE),
      s2    |-> Program(DB_s2,   <<>>, {Query(<<"r">>, <<>>)}, TRUE),
      s3    |-> Program(DB_s3,   <<>>, {Query(<<"b">>, <<>>)}, TRUE),
      mut   |-> Program(DB_mut,  <<>>, {Query(<<"a">>, <<>>), Query(<<"b">>, <<>>)}, TRUE),
      orc   |-> Program(DB_orc,  <<>>, {Query(<<"p">>, <<>>)}, TRUE),
      path  |-> Program(DB_path, <<>>, {Query(<<"t">>, <<1, 0>>), Query(<<"t">>, <<1, 2>>)}, TRUE),
      swap  |-> Program(DB_swap, <<>>, {Query(<<"a">>, <<>>)}, TRUE),
      calla |-> Program(DB_calla, <<Atom(<<"a">>)>>, {Query(<<"p">>, <<>>)}, TRUE),
      unk   |-> Program(DB_unk,  <<Atom(<<"q">>)>>,
                        {Query(<<"p">>, <<>>), Query(<<"r">>, <<>>), Query(<<"q">>, <<>>),
                         Query(<<"z">>, <<>>), Query(<<"s">>, <<1>>), Query(<<"s">>, <<3>>)},
                        FALSE),
      negc  |-> Program(DB_negc, <<>>, {Query(<<"g">>, <<>>), Query(<<"e">>, <<>>)}, FALSE),
      sib   |-> Program(DB_sib,  <<>>, {Query(<<"q">>, <<>>), Query(<<"p">>, <<>>)}, TRUE),
      ord   |-> Program(DB_ord,  <<>>, {Query(<<"a">>, <<0>>)}, TRUE),
      inv   |-> Program(DB_inv,  <<>>, {Query(<<"a">>, <<>>)}, TRUE),
      fwd   |-> Program(DB_fwd,  <<>>, {Query(<<"a">>, <<0>>)}, TRUE),
      swap2 |-> Program(DB_swap2, <<>>, {Query(<<"a">>, <<>>)}, TRUE),
      nots  |-> Program(DB_nots, <<>>, {Query(<<"n","0">>, <<>>), Query(<<"n","1">>, <<>>),
                                        Query(<<"n","2">>, <<>>), Query(<<"n","3">>, <<>>),
                                        Query(<<"n","4">>, <<>>)}, TRUE),
      deep  |-> Program(DB_deep, <<>>, {Query(<<"d">>, <<1>>)}, TRUE) ]

(***************************************************************************)
(* Database interface.                                                     *)
(***************************************************************************)
DB == database.db

getNode(node_id) == DB[node_id]

\* database.find(term): the node reserved for the predicate functor/arity
find(term) ==
    LET hits == {i \in 1..Len(DB) : /\ DB[i].type \in {"define", "NoneType"}
                                    /\ DB[i].functor = term.functor
                                    /\ Len(DB[i].args) = Len(term.args)}
    IN IF hits = {} THEN None ELSE CHOOSE i \in hits : TRUE

\* the callable atom a constant >= 100 names
TermOf(c) == database.terms[c - 99]

\* '%s/%s' % (functor, len(args))
Signature(functor, n) == <<functor, n>>

(***************************************************************************)
(* Terms, unification and substitution over flat terms.                    *)
(***************************************************************************)
IsConst(t) == t >= 1

is_ground(args) == \A i \in 1..Len(args) : IsConst(args[i])

\* unify_value: [ok, v]
unify_value(a, b) ==
    IF ~IsConst(a) THEN [ok |-> TRUE, v |-> b]
    ELSE IF ~IsConst(b) THEN [ok |-> TRUE, v |-> a]
    ELSE [ok |-> a = b, v |-> a]

\* substitute_call_args: the arguments of a call node under the caller's frame;
\* the k-th distinct unbound variable becomes -k
substitute_call_args(args, context) ==
    LET unbound(j) == args[j] < 0 /\ ~IsConst(context[-args[j]])
        first(j) == CHOOSE m \in 1..j : args[m] = args[j] /\ \A l \in 1..(m-1) : args[l] # args[j]
        number(j) == Cardinality({args[m] : m \in {l \in 1..first(j) : unbound(l)}})
    IN [j \in 1..Len(args) |->
          IF args[j] >= 1 THEN args[j]
          ELSE IF unbound(j) THEN -number(j)
          ELSE context[-args[j]]]

RECURSIVE unify_call_head_from(_, _, _, _)
unify_call_head_from(call_args, head_args, ctx, i) ==
    IF i > Min(Len(call_args), Len(head_args)) THEN [ok |-> TRUE, context |-> ctx]
    ELSE LET c == call_args[i]
             h == head_args[i]
         IN IF h < 0
            THEN LET u == unify_value(IF IsConst(c) THEN c ELSE 0, ctx[-h])
                 IN IF u.ok
                    THEN unify_call_head_from(call_args, head_args, [ctx EXCEPT ![-h] = u.v], i + 1)
                    ELSE [ok |-> FALSE, context |-> ctx]
            ELSE IF unify_value(c, h).ok
                 THEN unify_call_head_from(call_args, head_args, ctx, i + 1)
                 ELSE [ok |-> FALSE, context |-> ctx]

\* unify_call_head(call_args, head_args, target_context): [ok, context]
unify_call_head(call_args, head_args, target_context) ==
    unify_call_head_from(call_args, head_args, target_context, 1)

\* substitute_head_args(head_args, result)
substitute_head_args(head_args, result) ==
    [j \in 1..Len(head_args) |-> IF head_args[j] < 0 THEN result[-head_args[j]] ELSE head_args[j]]

RECURSIVE unify_call_return_from(_, _, _, _)
unify_call_return_from(result, call_args, ctx, i) ==
    IF i > Min(Len(result), Len(call_args)) THEN [ok |-> TRUE, v |-> ctx]
    ELSE LET r == result[i]
             c == call_args[i]
         IN IF c < 0
            THEN LET u == unify_value(IF IsConst(r) THEN r ELSE 0, ctx[-c])
                 IN IF u.ok
                    THEN unify_call_return_from(result, call_args, [ctx EXCEPT ![-c] = u.v], i + 1)
                    ELSE [ok |-> FALSE, v |-> ctx]
            ELSE IF unify_value(r, c).ok
                 THEN unify_call_return_from(result, call_args, ctx, i + 1)
                 ELSE [ok |-> FALSE, v |-> ctx]

\* unify_call_return(result, call_args, context, var_translate): [ok, v]
unify_call_return(result, call_args, context) ==
    unify_call_return_from(result, call_args, context, 1)

(***************************************************************************)
(* Transformations: the chain of result_transform closures.  A closure of  *)
(* eval_call is [kind "call"] with the call node's args and the caller's   *)
(* context; a closure of eval_clause is [kind "clause"] with the head args.*)
(* A dropped result (Python None) is [ok |-> FALSE].                       *)
(***************************************************************************)
CallTransform(args, context) == [kind |-> "call", args |-> args, context |-> context]
ClauseTransform(args) == [kind |-> "clause", args |-> args, context |-> <<>>]

\* one result_transform closure applied to a result
result_transform(f, result) ==
    IF f.kind = "call"
    THEN unify_call_return(result, f.args, f.context)
    ELSE [ok |-> TRUE, v |-> substitute_head_args(f.args, result)]

RECURSIVE Transformations_apply(_, _, _)
Transformations_apply(functions, i, r) ==
    IF i = 0 THEN r
    ELSE IF ~r.ok THEN r
    ELSE Transformations_apply(functions, i - 1, result_transform(functions[i], r.v))

\* Transformations.__call__ with the functions in the order of addition
Transformations_call_forward(functions, result) ==
    LET RECURSIVE fwd(_, _)
        fwd(i, r) == IF i > Len(functions) THEN r
                     ELSE IF ~r.ok THEN r
                     ELSE fwd(i + 1, result_transform(functions[i], r.v))
    IN fwd(1, [ok |-> TRUE, v |-> result])

\* Transformations.__call__: the functions in reverse order of addition
Transformations_call(functions, result) ==
    Transformations_apply(functions, Len(functions), [ok |-> TRUE, v |-> result])

\* Transformations.addFunction
addFunction(functions, f) == Append(functions, f)

(***************************************************************************)
(* The engine state the operations below thread through:                   *)
(*   [stack, stack_size, pointer, cycle_root, cache, target, tlog, elog,   *)
(*    err]                                                                 *)
(* err.kind = "" while no exception is propagating.  An operation applied  *)
(* to a state with an exception pending changes nothing.                   *)
(***************************************************************************)
NoError == [kind |-> "", message |-> "", location |-> None, signature |-> <<>>]
Failed(s) == s.err.kind # ""
Raise(s, kind, message, location) ==
    IF Failed(s) THEN s
    ELSE [s EXCEPT !.err = [kind |-> kind, message |-> message, location |-> location,
                            signature |-> <<>>]]
RaiseUnknownClause(s, sig, location) ==
    IF Failed(s) THEN s
    ELSE [s EXCEPT !.err = [kind |-> "UnknownClause", message |-> "No clauses found",
                            location |-> location, signature |-> sig]]

(***************************************************************************)
(* The ground target (sink).  Node ids are positive; every call is logged. *)
(***************************************************************************)
TNode(type, key, prob, children, readonly) ==
    [type |-> type, key |-> key, probability |-> prob, children |-> children,
     readonly |-> readonly]
TLog(op, args, readonly, result) ==
    [op |-> op, args |-> args, readonly |-> readonly, result |-> result]

\* target.addAtom(key, probability): a fresh atom
addAtom(s, key, probability) ==
    LET id == Len(s.target) + 1
    IN [s |-> [s EXCEPT !.target = Append(@, TNode("atom", key, probability, <<>>, TRUE)),
                        !.tlog = Append(@, TLog("addAtom", <<key>>, TRUE, id))],
        node |-> id]

\* target.addAnd((a, b)): TRUE is the identity
addAnd(s, a, b) ==
    LET fresh == a # NODE_TRUE /\ b # NODE_TRUE
        id == IF a = NODE_TRUE THEN b ELSE IF b = NODE_TRUE THEN a ELSE Len(s.target) + 1
    IN [s |-> [s EXCEPT !.target = IF fresh THEN Append(@, TNode("and", None, "", <<a, b>>, TRUE))
                                   ELSE @,
                        !.tlog = Append(@, TLog("addAnd", <<a, b>>, TRUE, id))],
        node |-> id]

\* target.addOr(nodes, readonly): a read-only Or over TRUE is TRUE, over one
\* node is that node; a mutable Or is always allocated
addOr(s, nodes, readonly) ==
    LET shortcut == readonly /\ (NODE_TRUE \in Range(nodes) \/ Len(nodes) = 1)
        id == IF readonly /\ NODE_TRUE \in Range(nodes) THEN NODE_TRUE
              ELSE IF readonly /\ Len(nodes) = 1 THEN nodes[1]
              ELSE Len(s.target) + 1
    IN [s |-> [s EXCEPT !.target = IF shortcut THEN @
                                   ELSE Append(@, TNode("or", None, "", nodes, readonly)),
                        !.tlog = Append(@, TLog("addOr", nodes, readonly, id))],
        node |-> id]

\* target.addDisjunct(or_node, new_child): appends to the Or
addDisjunct(s, or_node, new_child) ==
    IF or_node \in 1..Len(s.target) /\ s.target[or_node].type = "or"
    THEN [s EXCEPT !.target[or_node].children = Append(@, new_child),
                   !.tlog = Append(@, TLog("addDisjunct", <<or_node, new_child>>,
                                           s.target[or_node].readonly, or_node))]
    ELSE Raise(s, "TargetError", "addDisjunct on a node that is no Or", None)

\* target.addNot(node)
addNot(s, node) ==
    LET id == IF node = NODE_TRUE THEN NODE_FALSE
              ELSE IF node = NODE_FALSE THEN NODE_TRUE
              ELSE Len(s.target) + 1
    IN [s |-> [s EXCEPT !.target = IF node \in {NODE_TRUE, NODE_FALSE} THEN @
                                   ELSE Append(@, TNode("not", None, "", <<node>>, TRUE)),
                        !.tlog = Append(@, TLog("addNot", <<node>>, TRUE, id))],
        node |-> id]

\* a set iterated in one of the orders a build may produce
RECURSIVE SetToSeq(_, _)
SetToSeq(S, ascending) ==
    IF S = {} THEN <<>>
    ELSE LET x == IF ascending THEN CHOOSE m \in S : \A y \in S : m <= y
                  ELSE CHOOSE m \in S : \A y \in S : m >= y
         IN <<x>> \o SetToSeq(S \ {x}, ascending)

(***************************************************************************)
(* Messages.                                                               *)
(***************************************************************************)
Msg(act, obj, result, node, source, is_last, context, parent, identifier) ==
    [act |-> act, obj |-> obj, result |-> result, node |-> node, source |-> source,
     is_last |-> is_last, context |-> context, parent |-> parent, identifier |-> identifier]

\* call(obj, args, kwdargs): kwdargs carry context, parent and identifier
call(obj, context, parent, identifier) ==
    Msg("e", obj, <<>>, None, None, FALSE, context, parent, identifier)

newResult(obj, result, ground_node, source, is_last) ==
    Msg("r", obj, result, ground_node, source, is_last, <<>>, None, None)

complete(obj, source) ==
    Msg("c", obj, <<>>, None, source, FALSE, <<>>, None, None)

(***************************************************************************)
(* NestedDict and DefineCache.  A goal is <<functor, args>>.               *)
(***************************************************************************)
EmptyDict == [k \in {} |-> None]
NestedDict_contains(d, key) == key \in DOMAIN d
NestedDict_setitem(d, key, value) == (key :> value) @@ d

NOCACHE == <<"_", "n", "o", "c", "a", "c", "h", "e", "_">>

\* is_dont_cache that ignores the marker
is_dont_cache_never(goal) == FALSE

\* DefineCache.is_dont_cache: goal[0][:9] == '_nocache_'
is_dont_cache(goal) == SubSeq(goal[1], 1, Min(9, Len(goal[1]))) = NOCACHE

DefineCache_new == [ground |-> EmptyDict, non_ground |-> EmptyDict, active |-> EmptyDict]

\* DefineCache.activate
activate(c, goal, node) == [c EXCEPT !.active = NestedDict_setitem(@, goal, node)]

\* DefineCache.deactivate
deactivate(c, goal) ==
    [c EXCEPT !.active = [k \in (DOMAIN c.active) \ {goal} |-> c.active[k]]]

\* getEvalNode that never finds an active record
getEvalNode_none(c, goal) == None

\* DefineCache.getEvalNode: slot of the active record, or None
getEvalNode(c, goal) == IF goal \in DOMAIN c.active THEN c.active[goal] ELSE None

\* ResultSet: entries [result, nodes]; nodes is the list of ground nodes
\* before collapse and the one collapsed node after it
ResultSet_new == [results |-> <<>>, collapsed |-> FALSE]
Entry(result, nodes) == [result |-> result, nodes |-> nodes]
ResultSet_index(rs, result) ==
    IF \E i \in 1..Len(rs.results) : rs.results[i].result = result
    THEN CHOOSE i \in 1..Len(rs.results) : rs.results[i].result = result
    ELSE 0
ResultSet_contains(rs, result) == ResultSet_index(rs, result) # 0
\* ResultSet.__getitem__ of a collapsed set
ResultSet_getitem(rs, result) == rs.results[ResultSet_index(rs, result)].nodes[1]
\* ResultSet.__setitem__: [ok, rs]; ok is false when the assertion fails
ResultSet_setitem(rs, result, node) ==
    LET index == ResultSet_index(rs, result)
    IN IF index = 0
       THEN [ok |-> TRUE, rs |-> [rs EXCEPT !.results = Append(@, Entry(result, <<node>>))]]
       ELSE IF rs.collapsed THEN [ok |-> FALSE, rs |-> rs]
       ELSE [ok |-> TRUE, rs |-> [rs EXCEPT !.results[index].nodes = Append(@, node)]]

\* DefineCache.__contains__
DefineCache_contains(c, goal) ==
    IF is_ground(goal[2]) THEN NestedDict_contains(c.ground, goal)
    ELSE NestedDict_contains(c.non_ground, goal)

\* __getitem__ that hands out the results of a non-ground goal in reverse
DefineCache_getitem_reversed(c, goal) ==
    IF is_ground(goal[2]) THEN <<Entry(goal[2], <<c.ground[goal]>>)>>
    ELSE Reverse(c.non_ground[goal])

\* DefineCache.__getitem__ (the goal is present): list of [result, nodes]
DefineCache_getitem(c, goal) ==
    IF is_ground(goal[2]) THEN <<Entry(goal[2], <<c.ground[goal]>>)>>
    ELSE c.non_ground[goal]

\* get that never finds a goal
DefineCache_get_miss(c, goal) == [found |-> FALSE, items |-> <<>>]

\* DefineCache.get: [found, items]
DefineCache_get(c, goal) ==
    IF DefineCache_contains(c, goal)
    THEN [found |-> TRUE, items |-> DefineCache_getitem(c, goal)]
    ELSE [found |-> FALSE, items |-> <<>>]

RECURSIVE DefineCache_rows(_, _, _, _)
\* the loop of DefineCache.__setitem__ over res_keys
DefineCache_rows(ground, functor, results, i) ==
    IF i > Len(results) THEN ground
    ELSE DefineCache_rows(NestedDict_setitem(ground, <<functor, results[i].result>>,
                                             results[i].nodes[1]),
                          functor, results, i + 1)

\* DefineCache.__setitem__ with a collapsed result set
DefineCache_setitem(c, goal, rs) ==
    IF is_dont_cache(goal) THEN c
    ELSE IF is_ground(goal[2])
         THEN IF Len(rs.results) > 0
              THEN [c EXCEPT !.ground = NestedDict_setitem(@, <<goal[1], rs.results[1].result>>,
                                                           rs.results[1].nodes[1])]
              ELSE [c EXCEPT !.ground = NestedDict_setitem(@, goal, NODE_FALSE)]
         ELSE [c EXCEPT !.non_ground = NestedDict_setitem(@, goal, rs.results),
                        !.ground = DefineCache_rows(@, goal[1], rs.results, 1)]

(***************************************************************************)
(* Evaluation records.  One record shape for every variant; a field a      *)
(* variant does not have keeps its default.                                *)
(***************************************************************************)
NoRec == [type |-> "None"]

EvalNode(type, node_id, context, parent, ptr, identifier, transform, to_complete) ==
    [type |-> type, node_id |-> node_id, context |-> context, parent |-> parent,
     pointer |-> ptr, identifier |-> identifier, transform |-> transform,
     on_cycle |-> FALSE,
     results |-> ResultSet_new, to_complete |-> to_complete,
     cycle_children |-> <<>>, cycle_close |-> {},
     is_cycle_root |-> FALSE, is_cycle_child |-> FALSE, is_cycle_parent |-> FALSE,
     is_ground |-> is_ground(context),
     nodes |-> {}]


\* result of a record's protocol step
R(s, cleanUp, actions) == [s |-> s, cleanUp |-> cleanUp, actions |-> actions]
\* result of an evaluation that allocates: state and actions
Out(s, actions) == [s |-> s, actions |-> actions]

\* EvalNode.notifyComplete
notifyComplete(self, parent) ==
    << complete(IF parent = None THEN self.parent ELSE parent, self.identifier) >>

\* EvalNode.notifyResult that swallows a dropped result whatever is_last is
notifyResult_swallow(self, arguments, node, is_last, parent) ==
    LET t == Transformations_call(self.transform, arguments)
    IN IF ~t.ok THEN <<>>
       ELSE << newResult(IF parent = None THEN self.parent ELSE parent, t.v, node,
                         self.identifier, is_last) >>

\* EvalNode.notifyResult
notifyResult(self, arguments, node, is_last, parent) ==
    LET t == Transformations_call(self.transform, arguments)
    IN IF ~t.ok
       THEN IF is_last THEN notifyComplete(self, None) ELSE <<>>
       ELSE << newResult(IF parent = None THEN self.parent ELSE parent, t.v, node,
                         self.identifier, is_last) >>

\* EvalNode.createCall
createCall(self, node_id, context, identifier) ==
    call(node_id, context, self.pointer, identifier)

\* actions of "for result, node in self.results: actions += self.notifyResult(result, node)"
RECURSIVE notifyResults(_, _, _)
notifyResults(self, entries, i) ==
    IF i > Len(entries) THEN <<>>
    ELSE notifyResult(self, entries[i].result, entries[i].nodes[1], FALSE, None)
         \o notifyResults(self, entries, i + 1)

\* grow_stack allocating a new arena of twice the size instead of extending
\* the old one
grow_stack_fresh(s) ==
    [s EXCEPT !.stack = [i \in 0..(2 * s.stack_size - 1) |-> NoRec],
              !.stack_size = 2 * s.stack_size]

\* StackBasedEngine.grow_stack
grow_stack(s) ==
    [s EXCEPT !.stack = [i \in 0..(2 * s.stack_size - 1) |->
                            IF i < s.stack_size THEN s.stack[i] ELSE NoRec],
              !.stack_size = 2 * s.stack_size]

\* StackBasedEngine.shrink_stack
shrink_stack(s) ==
    [s EXCEPT !.stack = [i \in 0..(InitialStackSize - 1) |-> NoRec],
              !.stack_size = InitialStackSize]

\* StackBasedEngine.add_record
add_record(s, record) ==
    LET g == IF s.pointer >= s.stack_size THEN grow_stack(s) ELSE s
    IN [g EXCEPT !.stack[s.pointer] = record, !.pointer = s.pointer + 1]

RECURSIVE LowerPointer(_, _)
LowerPointer(stk, ptr) ==
    IF ptr > 0 /\ stk[ptr - 1] = NoRec THEN LowerPointer(stk, ptr - 1) ELSE ptr

\* StackBasedEngine.cleanUp
cleanUp(s, obj) ==
    LET root == IF s.cycle_root # None /\ s.cycle_root = obj THEN None ELSE s.cycle_root
        stk == [s.stack EXCEPT ![obj] = NoRec]
    IN [s EXCEPT !.cycle_root = root, !.stack = stk, !.pointer = LowerPointer(stk, s.pointer)]

(***************************************************************************)
(* EvalOr                                                                  *)
(***************************************************************************)
RECURSIVE EvalOr_collapse(_, _, _, _)
\* ResultSet.collapse with the function of EvalOr.flushBuffer
EvalOr_collapse(s, entries, i, cycle) ==
    IF i > Len(entries) THEN [s |-> s, entries |-> entries]
    ELSE LET o == addOr(s, entries[i].nodes, ~cycle)
         IN EvalOr_collapse(o.s, [entries EXCEPT ![i].nodes = <<o.node>>], i + 1, cycle)

\* flushBuffer that collapses the entries but leaves the set marked uncollapsed
EvalOr_flushBuffer_noMark(s, p, cycle) ==
    LET Store_(c) == [c.s EXCEPT !.stack[p].results = [results |-> c.entries,
                                                       collapsed |-> FALSE]]
    IN IF Failed(s) \/ s.stack[p].results.collapsed THEN s
       ELSE Store_(EvalOr_collapse(s, s.stack[p].results.results, 1, cycle))

\* EvalOr.flushBuffer
EvalOr_flushBuffer(s, p, cycle) ==
    LET Store_(c) == [c.s EXCEPT !.stack[p].results = [results |-> c.entries,
                                                       collapsed |-> TRUE]]
    IN IF Failed(s) \/ s.stack[p].results.collapsed THEN s
       ELSE Store_(EvalOr_collapse(s, s.stack[p].results.results, 1, cycle))

\* complete that forwards the completion without the buffered results
EvalOr_complete_noReplay(s, p, source) ==
    LET s1 == [s EXCEPT !.stack[p].to_complete = @ - 1]
    IN IF s1.stack[p].to_complete = 0
       THEN R(EvalOr_flushBuffer(s1, p, FALSE), TRUE, notifyComplete(s1.stack[p], None))
       ELSE R(s1, FALSE, <<>>)

\* EvalOr.complete
EvalOr_complete(s, p, source) ==
    LET s1 == [s EXCEPT !.stack[p].to_complete = @ - 1]
        Replay(s2) ==
            LET self == s2.stack[p]
                replay == IF ~self.on_cycle THEN notifyResults(self, self.results.results, 1)
                          ELSE <<>>
            IN R(s2, TRUE, replay \o notifyComplete(self, None))
    IN IF s1.stack[p].to_complete = 0
       THEN Replay(EvalOr_flushBuffer(s1, p, FALSE))
       ELSE R(s1, FALSE, <<>>)

\* newResult that treats a known tuple of an on-cycle Or like a new one
EvalOr_newResult_fresh(s, p, result, node, source, is_last) ==
    LET self == s.stack[p]
        Forward(o) ==
            LET s1 == [o.s EXCEPT !.stack[p].results =
                                     ResultSet_setitem([@ EXCEPT !.collapsed = FALSE],
                                                       result, o.node).rs]
                s2 == [s1 EXCEPT !.stack[p].results.collapsed = TRUE]
                actions == notifyResult(self, result, o.node, FALSE, None)
                Join(c) == R(c.s, c.cleanUp, actions \o c.actions)
            IN IF is_last THEN Join(EvalOr_complete(s2, p, source))
               ELSE R(s2, FALSE, actions)
    IN IF self.on_cycle
       THEN IF ~self.results.collapsed
            THEN R(Raise(s, "AssertionError", "results.collapsed", None), FALSE, <<>>)
            ELSE Forward(addOr(s, <<node>>, FALSE))
       ELSE IF self.results.collapsed
            THEN R(Raise(s, "AssertionError", "not results.collapsed", None), FALSE, <<>>)
            ELSE LET s1 == [s EXCEPT !.stack[p].results = ResultSet_setitem(@, result, node).rs]
                 IN IF is_last THEN EvalOr_complete(s1, p, source)
                    ELSE R(s1, FALSE, <<>>)

\* EvalOr.newResult
EvalOr_newResult(s, p, result, node, source, is_last) ==
    LET self == s.stack[p]
        Forward(o) ==
            LET s1 == [o.s EXCEPT !.stack[p].results =
                                     ResultSet_setitem(@, result, o.node).rs]
                actions == notifyResult(self, result, o.node, FALSE, None)
                Join(c) == R(c.s, c.cleanUp, actions \o c.actions)
            IN IF is_last THEN Join(EvalOr_complete(s1, p, source))
               ELSE R(s1, FALSE, actions)
    IN IF self.on_cycle
       THEN IF ~self.results.collapsed
            THEN R(Raise(s, "AssertionError", "results.collapsed", None), FALSE, <<>>)
            ELSE IF ResultSet_contains(self.results, result)
            THEN R(addDisjunct(s, ResultSet_getitem(self.results, result), node), FALSE, <<>>)
            ELSE Forward(addOr(s, <<node>>, FALSE))
       ELSE IF self.results.collapsed
            THEN R(Raise(s, "AssertionError", "not results.collapsed", None), FALSE, <<>>)
            ELSE LET s1 == [s EXCEPT !.stack[p].results = ResultSet_setitem(@, result, node).rs]
                 IN IF is_last THEN EvalOr_complete(s1, p, source)
                    ELSE R(s1, FALSE, <<>>)

\* createCycle that does not send the buffered results
EvalOr_createCycle_noReplay(s, p) ==
    Out(EvalOr_flushBuffer([s EXCEPT !.stack[p].on_cycle = TRUE], p, TRUE), <<>>)

\* EvalOr.createCycle
EvalOr_createCycle(s, p) ==
    LET Replay(s1) == Out(s1, notifyResults(s1.stack[p], s1.stack[p].results.results, 1))
    IN Replay(EvalOr_flushBuffer([s EXCEPT !.stack[p].on_cycle = TRUE], p, TRUE))

(***************************************************************************)
(* EvalAnd                                                                 *)
(***************************************************************************)
\* EvalAnd.__call__
EvalAnd_call(self) ==
    << createCall(self, getNode(self.node_id).children[1], self.context, None) >>

\* EvalAnd.complete
EvalAnd_complete(s, p, source) ==
    LET s1 == [s EXCEPT !.stack[p].to_complete = @ - 1]
    IN IF s1.stack[p].to_complete = 0
       THEN R(s1, TRUE, notifyComplete(s1.stack[p], None))
       ELSE IF s1.stack[p].to_complete > 0 THEN R(s1, FALSE, <<>>)
       ELSE R(Raise(s1, "AssertionError", "to_complete > 0", None), FALSE, <<>>)

\* EvalAnd.newResult
EvalAnd_newResult(s, p, result, node, source, is_last) ==
    LET self == s.stack[p]
        second == getNode(self.node_id).children[2]
        Conjoin(a) ==
            LET Forward(c) ==
                    IF Failed(c.s) THEN R(c.s, FALSE, <<>>)
                    ELSE R(c.s, c.cleanUp, notifyResult(self, result, a.node, c.cleanUp, None))
            IN Forward(IF is_last THEN EvalAnd_complete(a.s, p, None) ELSE R(a.s, FALSE, <<>>))
    IN IF source = None
       THEN LET s1 == [s EXCEPT !.stack[p].to_complete = @ + 1]
                s2 == IF is_last THEN EvalAnd_complete(s1, p, None).s ELSE s1
            IN R(s2, FALSE, << createCall(self, second, result, node) >>)
       ELSE Conjoin(addAnd(s, source, node))

(***************************************************************************)
(* EvalNot                                                                 *)
(***************************************************************************)
\* EvalNot.__call__
EvalNot_call(self) ==
    << createCall(self, getNode(self.node_id).child, self.context, self.identifier) >>

\* complete that flags the result of an empty Not as the last message
EvalNot_complete_last(s, p, source) ==
    LET self == s.stack[p]
        Negate(o) ==
            LET Forward(n) ==
                    R(n.s, TRUE,
                      (IF n.node # NODE_FALSE
                       THEN notifyResult(self, self.context, n.node, FALSE, None)
                       ELSE <<>>) \o notifyComplete(self, None))
            IN Forward(addNot(o.s, o.node))
    IN IF self.nodes # {}
       THEN Negate(addOr(s, SetToSeq(self.nodes, s.ascending), TRUE))
       ELSE R(s, TRUE, notifyResult(self, self.context, NODE_TRUE, TRUE, None))

\* EvalNot.complete
EvalNot_complete(s, p, source) ==
    LET self == s.stack[p]
        Negate(o) ==
            LET Forward(n) ==
                    R(n.s, TRUE,
                      (IF n.node # NODE_FALSE
                       THEN notifyResult(self, self.context, n.node, FALSE, None)
                       ELSE <<>>) \o notifyComplete(self, None))
            IN Forward(addNot(o.s, o.node))
    IN IF self.nodes # {}
       THEN Negate(addOr(s, SetToSeq(self.nodes, s.ascending), TRUE))
       ELSE R(s, TRUE, notifyResult(self, self.context, NODE_TRUE, FALSE, None)
                       \o notifyComplete(self, None))

\* EvalNot.newResult
EvalNot_newResult(s, p, result, node, source, is_last) ==
    LET s1 == IF node # NODE_FALSE THEN [s EXCEPT !.stack[p].nodes = @ \cup {node}] ELSE s
    IN IF is_last THEN EvalNot_complete(s1, p, source) ELSE R(s1, FALSE, <<>>)

\* EvalNot.createCycle
EvalNot_createCycle(s, p) ==
    Out(Raise(s, "NegativeCycle", "Negative cycle detected",
              getNode(s.stack[p].node_id).location), <<>>)

(***************************************************************************)
(* EvalDefine                                                              *)
(***************************************************************************)
\* engine event: eval_define took `branch` for the goal; a cache write
Event(ev, branch, goal, ptr) == [ev |-> ev, branch |-> branch, goal |-> goal, pointer |-> ptr]
Log(s, e) == IF Failed(s) THEN s ELSE [s EXCEPT !.elog = Append(@, e)]

Goal(self) == <<getNode(self.node_id).functor, self.context>>

\* EvalDefine.isCycleParent
isCycleParent(self) == Len(self.cycle_children) > 0 \/ self.is_cycle_parent

RECURSIVE EvalDefine_collapse(_, _, _, _, _)
\* ResultSet.collapse with the function of EvalDefine.flushBuffer
EvalDefine_collapse(s, functor, entries, i, cycle) ==
    IF i > Len(entries) \/ Failed(s) THEN [s |-> s, entries |-> entries]
    ELSE LET cache_key == <<functor, entries[i].result>>
         IN IF DefineCache_contains(s.cache, cache_key)
            THEN LET stored_result == DefineCache_getitem(s.cache, cache_key)
                 IN IF Len(stored_result) # 1
                    THEN [s |-> Raise(s, "AssertionError", "len(stored_result)==1", None),
                          entries |-> entries]
                    ELSE EvalDefine_collapse(s, functor,
                             [entries EXCEPT ![i].nodes = <<stored_result[1].nodes[1]>>],
                             i + 1, cycle)
            ELSE LET o == addOr(s, entries[i].nodes, ~cycle)
                 IN EvalDefine_collapse(o.s, functor,
                        [entries EXCEPT ![i].nodes = <<o.node>>], i + 1, cycle)

\* flushBuffer that collapses into read-only Or nodes on a cycle too
EvalDefine_flushBuffer_readonly(s, p, cycle) ==
    LET Store_(c) == [c.s EXCEPT !.stack[p].results = [results |-> c.entries,
                                                       collapsed |-> ~Failed(c.s)]]
    IN IF Failed(s) \/ s.stack[p].results.collapsed THEN s
       ELSE Store_(EvalDefine_collapse(s, Goal(s.stack[p])[1], s.stack[p].results.results,
                                       1, FALSE))

\* EvalDefine.flushBuffer
EvalDefine_flushBuffer(s, p, cycle) ==
    LET Store_(c) == [c.s EXCEPT !.stack[p].results = [results |-> c.entries,
                                                       collapsed |-> ~Failed(c.s)]]
    IN IF Failed(s) \/ s.stack[p].results.collapsed THEN s
       ELSE Store_(EvalDefine_collapse(s, Goal(s.stack[p])[1], s.stack[p].results.results,
                                       1, cycle))

\* EvalDefine.notifyResultMe
notifyResultMe(self, arguments, node) ==
    << newResult(self.pointer, arguments, node, self.identifier, FALSE) >>

\* the cycle children are notified without is_last
notifyResultChildren_notLast(self, arguments, node, is_last) ==
    [i \in 1..Len(self.cycle_children) |->
        newResult(self.cycle_children[i], arguments, node, self.identifier, FALSE)]

\* EvalDefine.notifyResultChildren
notifyResultChildren(self, arguments, node, is_last) ==
    [i \in 1..Len(self.cycle_children) |->
        newResult(self.cycle_children[i], arguments, node, self.identifier, is_last)]

RECURSIVE replayResults(_, _, _)
\* the replay loop of EvalDefine.complete: the last result is flagged is_last
replayResults(self, entries, i) ==
    IF i > Len(entries) THEN <<>>
    ELSE notifyResult(self, entries[i].result, entries[i].nodes[1], i = Len(entries), None)
         \o replayResults(self, entries, i + 1)

\* complete that replays the results to the parent on a cycle too
EvalDefine_complete_replayAlways(s, p, source) ==
    LET self0 == s.stack[p]
        s1 == [s EXCEPT !.stack[p].to_complete = @ - 1]
        cache_key == Goal(self0)
        Write(s2) ==
            LET self == s2.stack[p]
            IN IF Failed(s2) THEN R(s2, FALSE, <<>>)
               ELSE R([s2 EXCEPT !.cache = deactivate(DefineCache_setitem(@, cache_key,
                                                                          self.results),
                                                      cache_key)],
                      TRUE,
                      IF Len(self.results.results) > 0
                      THEN replayResults(self, self.results.results, 1)
                      ELSE notifyComplete(self, None))
    IN IF self0.is_cycle_child THEN R(s, TRUE, notifyComplete(self0, None))
       ELSE IF s1.stack[p].to_complete = 0
       THEN Write(EvalDefine_flushBuffer(s1, p, FALSE))
       ELSE R(s1, FALSE, <<>>)

\* EvalDefine.complete
EvalDefine_complete(s, p, source) ==
    LET self0 == s.stack[p]
        s1 == [s EXCEPT !.stack[p].to_complete = @ - 1]
        cache_key == Goal(self0)
        Deactivate(s3, actions) ==
            IF Failed(s3) THEN R(s3, FALSE, <<>>)
            ELSE IF cache_key \in DOMAIN s3.cache.active
            THEN R([s3 EXCEPT !.cache = deactivate(@, cache_key)], TRUE, actions)
            ELSE R(Raise(s3, "KeyError", "deactivate", None), FALSE, <<>>)
        Write(s2) ==
            LET self == s2.stack[p]
            IN Deactivate(IF Failed(s2) THEN s2
                          ELSE Log([s2 EXCEPT !.cache =
                                      DefineCache_setitem(@, cache_key, self.results)],
                                   Event("cache", "write", cache_key, p)),
                          IF ~self.on_cycle
                          THEN IF Len(self.results.results) > 0
                               THEN replayResults(self, self.results.results, 1)
                               ELSE notifyComplete(self, None)
                          ELSE notifyComplete(self, None))
    IN IF self0.is_cycle_child THEN R(s, TRUE, notifyComplete(self0, None))
       ELSE IF s1.stack[p].to_complete = 0
       THEN Write(EvalDefine_flushBuffer(s1, p, FALSE))
       ELSE R(s1, FALSE, <<>>)

\* EvalDefine.newResult
EvalDefine_newResult(s, p, result, node, source, is_last) ==
    LET self == s.stack[p]
        cache_key == <<Goal(self)[1], result>>
        cached == DefineCache_contains(s.cache, cache_key)
        stored_result == IF cached THEN DefineCache_getitem(s.cache, cache_key) ELSE <<>>
        \* a result seen before gets one more disjunct
        Disjunct(s1) ==
            IF Failed(s1) THEN R(s1, FALSE, <<>>)
            ELSE IF is_last THEN EvalDefine_complete(s1, p, source)
            ELSE R(s1, FALSE, <<>>)
        \* a new result, with its node o.node, is stored and sent on
        Forward(o) ==
            LET set == ResultSet_setitem(self.results, result, o.node)
                s1 == [o.s EXCEPT !.stack[p].results = set.rs]
                actions == (IF self.on_cycle
                            THEN notifyResult(self, result, o.node, FALSE, None)
                            ELSE <<>>)
                           \o notifyResultChildren(self, result, o.node, self.is_ground)
                s2 == IF ~self.is_ground THEN s1
                      ELSE IF s1.cycle_root = None
                      THEN Raise(s1, "AttributeError",
                                 "'NoneType' object has no attribute 'cycle_close'", None)
                      ELSE [s1 EXCEPT !.stack[s1.cycle_root].cycle_close =
                                          @ \ Range(self.cycle_children)]
                Join(c) == R(c.s, c.cleanUp, actions \o c.actions)
            IN IF ~set.ok
               THEN R(Raise(o.s, "AssertionError", "not self.collapsed", None), FALSE, <<>>)
               ELSE IF Failed(s2) THEN R(s2, FALSE, <<>>)
               ELSE IF is_last THEN Join(EvalDefine_complete(s2, p, source))
               ELSE R(s2, FALSE, actions)
    IN IF self.is_cycle_child
       THEN R(s, is_last, notifyResult(self, result, node, is_last, None))
       ELSE IF self.on_cycle \/ isCycleParent(self)
       THEN IF ~self.results.collapsed
            THEN R(Raise(s, "AssertionError", "results.collapsed", None), FALSE, <<>>)
            ELSE IF ResultSet_contains(self.results, result)
                    /\ ResultSet_getitem(self.results, result) # None
            THEN Disjunct(addDisjunct(s, ResultSet_getitem(self.results, result), node))
            ELSE IF cached /\ Len(stored_result) # 1
            THEN R(Raise(s, "AssertionError", "len(stored_result) == 1", None), FALSE, <<>>)
            ELSE IF cached THEN Forward([s |-> s, node |-> stored_result[1].nodes[1]])
            ELSE Forward(addOr(s, <<node>>, FALSE))
       ELSE IF self.results.collapsed
            THEN R(Raise(s, "AssertionError", "not results.collapsed", None), FALSE, <<>>)
            ELSE LET s1 == [s EXCEPT !.stack[p].results = ResultSet_setitem(@, result, node).rs]
                 IN IF is_last THEN EvalDefine_complete(s1, p, source)
                    ELSE R(s1, FALSE, <<>>)

\* createCycle that neither marks the record nor replays its results
EvalDefine_createCycle_noMark(s, p) == Out(s, <<>>)

\* EvalDefine.createCycle
EvalDefine_createCycle(s, p) ==
    LET Replay(s1) ==
            IF Failed(s1) THEN Out(s1, <<>>)
            ELSE Out(s1, notifyResults(s1.stack[p], s1.stack[p].results.results, 1))
    IN IF s.stack[p].on_cycle THEN Out(s, <<>>)
       ELSE IF s.stack[p].is_cycle_root THEN Out(s, <<>>)
       ELSE Replay(EvalDefine_flushBuffer([s EXCEPT !.stack[p].on_cycle = TRUE], p, TRUE))

\* closeCycle that completes no cycle child
EvalDefine_closeCycle_noComplete(s, p, toplevel) ==
    IF s.stack[p].is_cycle_root /\ toplevel
    THEN Out([s EXCEPT !.cycle_root = None], <<>>)
    ELSE Out(s, <<>>)

\* EvalDefine.closeCycle
EvalDefine_closeCycle(s, p, toplevel) ==
    LET self == s.stack[p]
        close == SetToSeq(self.cycle_close, s.ascending)
    IN IF self.is_cycle_root /\ toplevel
       THEN Out([s EXCEPT !.cycle_root = None],
                [i \in 1..Len(close) |-> complete(close[i], self.identifier)])
       ELSE Out(s, <<>>)

\* createCycle of the record in slot p, by its class
createCycle(s, p) ==
    LET t == s.stack[p].type
    IN IF t = "EvalOr" THEN EvalOr_createCycle(s, p)
       ELSE IF t = "EvalDefine" THEN EvalDefine_createCycle(s, p)
       ELSE IF t = "EvalNot" THEN EvalNot_createCycle(s, p)
       ELSE Out([s EXCEPT !.stack[p].on_cycle = TRUE], <<>>)      \* EvalNode.createCycle

\* a walk that paints no record
notifyCycle_walk_none(s, current, root, location, actions) == Out(s, actions)

RECURSIVE notifyCycle_walk(_, _, _, _, _)
\* the while loop of notifyCycle
notifyCycle_walk(s, current, root, location, actions) ==
    LET Up(c) == notifyCycle_walk(c.s, s.stack[current].parent, root, location,
                                  actions \o c.actions)
    IN IF Failed(s) \/ current = root THEN Out(s, actions)
       ELSE IF current = None
       THEN Out(Raise(s, "IndirectCallCycleError", "Indirect cycle detected", location),
                actions)
       ELSE IF s.stack[current].on_cycle THEN Out(s, actions)
       ELSE Up(createCycle(s, current))

\* StackBasedEngine.notifyCycle
notifyCycle(s, child) ==
    IF Failed(s) THEN Out(s, <<>>)
    ELSE IF s.cycle_root = None
    THEN Out(Raise(s, "AssertionError", "cycle_root != None", None), <<>>)
    ELSE notifyCycle_walk(s, s.stack[child].parent, s.cycle_root,
                          getNode(s.stack[child].node_id).location, <<>>)

RECURSIVE checkCycle_walk(_, _, _)
\* the while loop of checkCycle
checkCycle_walk(s, current, parent) ==
    IF current = parent THEN s
    ELSE IF current = None
    THEN Raise(s, "TypeError", "list indices must be integers, not NoneType", None)
    ELSE LET exec_node == s.stack[current]
         IN IF exec_node.on_cycle THEN s
            ELSE IF exec_node.type = "EvalNot"
            THEN Raise(s, "NegativeCycle", "Negative cycle detected",
                       getNode(exec_node.node_id).location)
            ELSE checkCycle_walk(s, exec_node.parent, parent)

\* StackBasedEngine.checkCycle
checkCycle(s, child, parent) ==
    IF Failed(s) THEN s ELSE checkCycle_walk(s, child, parent)

\* a replay to the cycle child that sends nothing
notifyResultsMe_none(self, entries, i) == <<>>

RECURSIVE notifyResultsMe(_, _, _)
notifyResultsMe(self, entries, i) ==
    IF i > Len(entries) THEN <<>>
    ELSE notifyResultMe(self, entries[i].result, entries[i].nodes[1])
         \o notifyResultsMe(self, entries, i + 1)

\* EvalDefine.cycleDetected, for the record in slot p and the active record
EvalDefine_cycleDetected(s, p, cycle_parent) ==
    LET old_root == s.cycle_root
        \* the new parent is earlier in the call stack than the current cycle root
        swap == old_root # None /\ cycle_parent < old_root
        root == IF swap THEN None ELSE old_root
        s1 == [s EXCEPT !.stack[p].is_cycle_child = TRUE,
                        !.stack[cycle_parent].cycle_children = Append(@, p)]
        \* the child is registered for closing and the parent chain is notified
        Register(s5, queue) ==
            LET s6 == IF Failed(s5) THEN s5
                      ELSE IF root = None
                      THEN [s5 EXCEPT !.cycle_root = cycle_parent,
                                      !.stack[cycle_parent].is_cycle_root = TRUE,
                                      !.stack[cycle_parent].cycle_close = @ \cup {p}]
                      ELSE [s5 EXCEPT !.stack[root].cycle_close = @ \cup {p}]
                Finish(n7) == Out(n7.s, queue \o n7.actions)
            IN Finish(notifyCycle(s6, p))
        \* the old root is notified up to the new root
        NotifyOldRoot(c4, queue) ==
            LET Then(n5) == Register(n5.s, queue \o c4.actions \o n5.actions)
            IN Then(IF swap THEN notifyCycle(c4.s, old_root) ELSE Out(c4.s, <<>>))
        Swap(s2) ==
            LET queue1 == notifyResultsMe(s2.stack[p], s2.stack[cycle_parent].results.results, 1)
                s3 == IF swap
                      THEN [s2 EXCEPT !.stack[old_root].is_cycle_root = FALSE,
                                      !.stack[cycle_parent].cycle_close =
                                          s2.stack[old_root].cycle_close,
                                      !.stack[old_root].cycle_close = {},
                                      !.cycle_root = cycle_parent]
                      ELSE s2
            IN IF Failed(s2) THEN Out(s2, <<>>)
               ELSE NotifyOldRoot(IF swap THEN EvalDefine_createCycle(s3, old_root)
                                  ELSE Out(s3, <<>>), queue1)
    IN Swap(EvalDefine_flushBuffer(s1, cycle_parent, TRUE))

(***************************************************************************)
(* Evaluators of StackBasedEngine.  kw are the keyword arguments of       *)
(* the evaluation; an evaluator yields the new state, the actions, and the *)
(* nested execute a call/N built-in has started (sub.pending).             *)
(***************************************************************************)
NoOrigin == [sig |-> <<>>, location |-> None]
KW(context, parent, identifier, has_identifier, transform, call_origin) ==
    [context |-> context, parent |-> parent, identifier |-> identifier,
     has_identifier |-> has_identifier, transform |-> transform, call_origin |-> call_origin]

NoSub == [pending |-> FALSE, node_id |-> None, context |-> <<>>, term |-> None,
          parent |-> None, identifier |-> None, transform |-> <<>>,
          sig |-> <<>>, location |-> None]
EOut(s, actions) == [s |-> s, actions |-> actions, sub |-> NoSub]

\* StackBasedEngine.eval_fact
eval_fact(s, node_id, node, kw) ==
    IF ~kw.has_identifier
    THEN EOut(Raise(s, "TypeError", "eval_fact() missing argument 'identifier'", None), <<>>)
    ELSE IF \A i \in 1..Min(Len(node.args), Len(kw.context)) :
                unify_value(node.args[i], kw.context[i]).ok
    THEN LET a == addAtom(s, node_id, node.probability)
         IN IF a.node # None
            THEN EOut(a.s, << newResult(kw.parent, node.args, a.node, kw.identifier, TRUE) >>)
            ELSE EOut(a.s, << complete(kw.parent, kw.identifier) >>)
    ELSE EOut(s, << complete(kw.parent, kw.identifier) >>)

RECURSIVE eval_define_cached(_, _, _)
\* the replay loop of eval_define over the cached results
eval_define_cached(results, i, kw) ==
    IF i > Len(results) THEN <<>>
    ELSE LET last == (i = Len(results))
             target_node == results[i].nodes[1]
             t == Transformations_call(kw.transform, results[i].result)
             here == IF target_node # NODE_FALSE
                     THEN IF ~t.ok
                          THEN IF last THEN << complete(kw.parent, kw.identifier) >> ELSE <<>>
                          ELSE << newResult(kw.parent, t.v, target_node, kw.identifier, last) >>
                     ELSE IF last THEN << complete(kw.parent, kw.identifier) >> ELSE <<>>
         IN here \o eval_define_cached(results, i + 1, kw)

\* the clause index of a define node: node.children.find(context)
ClauseIndex_find(node, context) ==
    LET matches(c) == \A i \in 1..Min(Len(getNode(c).args), Len(context)) :
                         \/ getNode(c).args[i] < 0
                         \/ ~IsConst(context[i])
                         \/ getNode(c).args[i] = context[i]
        keep == {i \in 1..Len(node.children) : matches(node.children[i])}
        RECURSIVE pick(_)
        pick(i) == IF i > Len(node.children) THEN <<>>
                   ELSE (IF i \in keep THEN <<node.children[i]>> ELSE <<>>) \o pick(i + 1)
    IN pick(1)

\* eval_define, branch 1: the goal is in the cache
eval_define_hit(s, goal, results, kw) ==
    EOut(Log(s, Event("define", "cache", goal, None)),
         IF Len(results) > 0 THEN eval_define_cached(results, 1, kw)
         ELSE << complete(kw.parent, kw.identifier) >>)

RECURSIVE eval_define_queue(_, _, _)
eval_define_queue(results, i, kw) ==
    IF i > Len(results) THEN <<>>
    ELSE LET t == Transformations_call(kw.transform, results[i].result)
         IN (IF ~t.ok THEN << complete(kw.parent, kw.identifier) >>
             ELSE << newResult(kw.parent, t.v, results[i].nodes[1], kw.identifier, TRUE) >>)
            \o eval_define_queue(results, i + 1, kw)

\* the branch without the mark on the active record
eval_define_ground_active_noMark(s, goal, active_node, kw) ==
    LET Check(s1) ==
            LET queue == eval_define_queue(s1.stack[active_node].results.results, 1, kw)
                s3 == IF Failed(s1) THEN s1
                      ELSE IF Len(queue) # 1
                      THEN Raise(s1, "AssertionError", "len(queue) == 1", None)
                      ELSE checkCycle(s1, kw.parent, s1.stack[active_node].pointer)
            IN EOut(Log(s3, Event("define", "ground_active", goal, None)), queue)
    IN Check(EvalDefine_flushBuffer(s, active_node, TRUE))

\* eval_define, branch 2: the active record is ground and has results
eval_define_ground_active(s, goal, active_node, kw) ==
    LET Check(s1) ==
            LET s2 == IF Failed(s1) THEN s1
                      ELSE [s1 EXCEPT !.stack[active_node].is_cycle_parent = TRUE]
                queue == eval_define_queue(s2.stack[active_node].results.results, 1, kw)
                s3 == IF Failed(s2) THEN s2
                      ELSE IF Len(queue) # 1
                      THEN Raise(s2, "AssertionError", "len(queue) == 1", None)
                      ELSE checkCycle(s2, kw.parent, s2.stack[active_node].pointer)
            IN EOut(Log(s3, Event("define", "ground_active", goal, None)), queue)
    IN Check(EvalDefine_flushBuffer(s, active_node, TRUE))

\* eval_define, branch 3: the goal is active: a cycle
eval_define_cycle(s, node_id, goal, active_node, kw) ==
    LET evalnode == EvalNode("EvalDefine", node_id, kw.context, kw.parent, s.pointer,
                             kw.identifier, kw.transform, None)
        s1 == Log(add_record(s, evalnode), Event("define", "cycle_child", goal, s.pointer))
        Queue(c) == EOut(c.s, c.actions)
    IN Queue(EvalDefine_cycleDetected(s1, s.pointer, active_node))

\* new evaluation that lists the clause calls in reverse index order
eval_define_new_reversed(s, node_id, node, goal, kw) ==
    LET children == ClauseIndex_find(node, kw.context)
        to_complete == Len(children)
        evalnode == EvalNode("EvalDefine", node_id, kw.context, kw.parent, s.pointer,
                             kw.identifier, kw.transform, to_complete)
        s1 == add_record(s, evalnode)
        s2 == [s1 EXCEPT !.cache = activate(@, goal, s.pointer)]
    IN IF to_complete = 0
       THEN EOut(Log(s, Event("define", "empty", goal, None)),
                 << complete(kw.parent, kw.identifier) >>)
       ELSE EOut(Log(s2, Event("define", "new", goal, s.pointer)),
                 [i \in 1..Len(children) |->
                     createCall(evalnode, children[Len(children) + 1 - i],
                                evalnode.context, evalnode.identifier)])

\* eval_define, branch 4: a new evaluation of the goal
eval_define_new(s, node_id, node, goal, kw) ==
    LET children == ClauseIndex_find(node, kw.context)
        to_complete == Len(children)
        evalnode == EvalNode("EvalDefine", node_id, kw.context, kw.parent, s.pointer,
                             kw.identifier, kw.transform, to_complete)
        s1 == add_record(s, evalnode)
        s2 == [s1 EXCEPT !.cache = activate(@, goal, s.pointer)]
    IN IF to_complete = 0
       THEN EOut(Log(s, Event("define", "empty", goal, None)),
                 << complete(kw.parent, kw.identifier) >>)
       ELSE EOut(Log(s2, Event("define", "new", goal, s.pointer)),
                 [i \in 1..Len(children) |->
                     createCall(evalnode, children[i], evalnode.context, evalnode.identifier)])

\* StackBasedEngine.eval_define
eval_define(s, node_id, node, kw) ==
    LET goal == <<node.functor, kw.context>>
        results == DefineCache_get(s.cache, goal)
        active_node == getEvalNode(s.cache, goal)
    IN IF results.found THEN eval_define_hit(s, goal, results.items, kw)
       ELSE IF active_node # None
       THEN IF s.stack[active_node].is_ground
               /\ Len(s.stack[active_node].results.results) > 0
            THEN eval_define_ground_active(s, goal, active_node, kw)
            ELSE eval_define_cycle(s, node_id, goal, active_node, kw)
       ELSE eval_define_new(s, node_id, node, goal, kw)

\* StackBasedEngine.eval_disj
eval_disj(s, node_id, node, kw) ==
    LET evalnode == EvalNode("EvalOr", node_id, kw.context, kw.parent, s.pointer,
                             kw.identifier, kw.transform, Len(node.children))
    IN IF Len(node.children) = 0 THEN EOut(s, << complete(kw.parent, None) >>)
       ELSE EOut(add_record(s, evalnode),
                 [i \in 1..Len(node.children) |->
                     createCall(evalnode, node.children[i], evalnode.context,
                                evalnode.identifier)])

\* StackBasedEngine.eval_conj: eval_default(EvalAnd)
eval_conj(s, node_id, node, kw) ==
    LET evalnode == EvalNode("EvalAnd", node_id, kw.context, kw.parent, s.pointer,
                             kw.identifier, kw.transform, 1)
    IN EOut(add_record(s, evalnode), EvalAnd_call(evalnode))

\* StackBasedEngine.eval_neg: eval_default(EvalNot)
eval_neg(s, node_id, node, kw) ==
    LET evalnode == EvalNode("EvalNot", node_id, kw.context, kw.parent, s.pointer,
                             kw.identifier, kw.transform, None)
    IN EOut(add_record(s, evalnode), EvalNot_call(evalnode))

\* StackBasedEngine.eval_builtin with builtin_call: call/1 starts a nested
\* execute (engine.call with subcall=True); the record is never stored
eval_builtin(s, node_id, kw) ==
    LET term == kw.context[1]
        term_call == TermOf(term)
        found == find(term_call)
        sig == Signature(term_call.functor, Len(term_call.args))
    IN IF node_id # CALL1
       THEN EOut(Raise(s, "KeyError", "no such built-in", None), <<>>)
       ELSE IF Len(kw.context) # 1 \/ term < 100
       THEN EOut(Raise(s, "CallModeError", "call/1 on a non-callable", None), <<>>)
       ELSE IF found = None
       THEN EOut(RaiseUnknownClause(s, sig, kw.call_origin.location), <<>>)
       ELSE [s |-> s, actions |-> <<>>,
             sub |-> [pending |-> TRUE, node_id |-> found, context |-> term_call.args,
                      term |-> term, parent |-> kw.parent, identifier |-> kw.identifier,
                      transform |-> kw.transform, sig |-> sig,
                      location |-> kw.call_origin.location]]

RECURSIVE eval(_, _, _)

\* StackBasedEngine.eval_call
eval_call(s, node_id, node, kw) ==
    LET call_args == substitute_call_args(node.args, kw.context)
        t == Transformations_call(kw.transform, kw.context)
        origin == Signature(node.functor, Len(node.args))
        transform == addFunction(kw.transform, CallTransform(node.args, kw.context))
        r == eval(s, node.defnode,
                  KW(call_args, kw.parent, kw.identifier, TRUE, transform,
                     [sig |-> origin, location |-> node.location]))
    IN IF node.defnode = BUILTIN_NEQ
       THEN IF unify_value(call_args[1], call_args[2]).ok
            THEN EOut(s, << complete(kw.parent, kw.identifier) >>)
            ELSE IF t.ok
            THEN EOut(s, << newResult(kw.parent, t.v, NODE_TRUE, kw.identifier, TRUE) >>)
            ELSE EOut(Raise(s, "TypeError", "result is None", None), <<>>)
       ELSE IF node.defnode = BUILTIN_TRUE
       THEN IF t.ok
            THEN EOut(s, << newResult(kw.parent, t.v, NODE_TRUE, kw.identifier, TRUE) >>)
            ELSE EOut(Raise(s, "TypeError", "result is None", None), <<>>)
       ELSE IF node.defnode \in {BUILTIN_FAIL, BUILTIN_FALSE}
       THEN EOut(s, << complete(kw.parent, kw.identifier) >>)
       ELSE IF r.s.err.kind = "_UnknownClause"
       THEN EOut(RaiseUnknownClause(s, origin, node.location), <<>>)
       ELSE r

\* StackBasedEngine.eval_clause
eval_clause(s, node_id, node, kw) ==
    LET u == unify_call_head(kw.context, node.args, [i \in 1..node.varcount |-> 0])
        transform == addFunction(kw.transform, ClauseTransform(node.args))
    IN IF u.ok
       THEN eval(s, node.child, KW(u.context, kw.parent, None, FALSE, transform, kw.call_origin))
       ELSE EOut(s, << complete(kw.parent, kw.identifier) >>)

\* StackBasedEngine.eval
eval(s, node_id, kw) ==
    IF node_id < 0 THEN eval_builtin(s, node_id, kw)
    ELSE LET node == getNode(node_id)
         IN IF node.type = "fact" THEN eval_fact(s, node_id, node, kw)
            ELSE IF node.type = "conj" THEN eval_conj(s, node_id, node, kw)
            ELSE IF node.type = "disj" THEN eval_disj(s, node_id, node, kw)
            ELSE IF node.type = "neg" THEN eval_neg(s, node_id, node, kw)
            ELSE IF node.type = "define" THEN eval_define(s, node_id, node, kw)
            ELSE IF node.type = "call" THEN eval_call(s, node_id, node, kw)
            ELSE IF node.type = "clause" THEN eval_clause(s, node_id, node, kw)
            ELSE IF unknown = UNKNOWN_FAIL
                 THEN IF kw.has_identifier
                      THEN EOut(s, << complete(kw.parent, kw.identifier) >>)
                      ELSE EOut(Raise(s, "KeyError", "identifier", None), <<>>)
                 ELSE EOut(Raise(s, "_UnknownClause", "", None), <<>>)

(***************************************************************************)
(* The driver: StackBasedEngine.call and StackBasedEngine.execute.         *)
(* A frame is one running execute; its actions list is the Python list     *)
(* (the next action is the last element).                                  *)
(***************************************************************************)
Frame(phase, subcall, query, node_id, context, cb) ==
    [phase |-> phase, subcall |-> subcall, query |-> query, node_id |-> node_id,
     context |-> context, actions |-> <<>>, solutions |-> <<>>, cb |-> cb]

\* the engine and target state the operators thread through a step;
\* ascending is the iteration order of Python sets during this step
Engine(asc) ==
    [stack |-> stack, stack_size |-> stack_size, pointer |-> pointer,
     cycle_root |-> cycle_root, cache |-> cache, target |-> target,
     tlog |-> tlog, elog |-> elog, err |-> NoError, ascending |-> asc]

Store(s) ==
    /\ stack' = s.stack
    /\ stack_size' = s.stack_size
    /\ pointer' = s.pointer
    /\ cycle_root' = s.cycle_root
    /\ cache' = s.cache
    /\ target' = s.target
    /\ tlog' = s.tlog
    /\ elog' = s.elog

Top == frames[Len(frames)]

Outcome(query, outcome, solutions, ptr) ==
    [query |-> query, outcome |-> outcome, solutions |-> solutions, pointer |-> ptr]

\* an exception leaves every running execute; the engine keeps its state
Abort(s) ==
    /\ Store(s)
    /\ frames' = <<>>
    /\ status' = "error"
    /\ error' = s.err
    /\ history' = Append(history, Outcome(frames[1].query, s.err.kind, <<>>, s.pointer))
    /\ UNCHANGED <<prog, database, unknown>>

\* the top-level execute returns its solutions
Return(s, solutions) ==
    /\ Store(s)
    /\ frames' = <<>>
    /\ status' = "returned"
    /\ error' = NoError
    /\ history' = Append(history, Outcome(frames[1].query, "ok", solutions, s.pointer))
    /\ UNCHANGED <<prog, database, unknown>>

\* the running execute goes on with a new actions list
Resume(s, frs) ==
    /\ Store(s)
    /\ frames' = frs
    /\ UNCHANGED <<prog, database, unknown, status, error, history>>

\* a driver that queues the new actions behind the pending ones
AfterMessage_behind(s, rest, next_actions, clean, obj) ==
    LET Push(na) ==
            IF Failed(na.s) THEN Out(na.s, rest)
            ELSE Out(IF clean THEN cleanUp(na.s, obj) ELSE na.s,
                     Reverse(na.actions) \o rest)
    IN IF Failed(s) THEN Out(s, rest)
       ELSE IF rest = <<>> /\ next_actions = <<>> /\ s.cycle_root # None
       THEN Push(EvalDefine_closeCycle(s, s.cycle_root, TRUE))
       ELSE Push(Out(s, next_actions))

\* execute, after a message was handled: close the cycle when nothing is
\* left to do, push the new actions, clean up the record
AfterMessage(s, rest, next_actions, clean, obj) ==
    LET Push(na) ==
            IF Failed(na.s) THEN Out(na.s, rest)
            ELSE Out(IF clean THEN cleanUp(na.s, obj) ELSE na.s,
                     rest \o Reverse(na.actions))
    IN IF Failed(s) THEN Out(s, rest)
       ELSE IF rest = <<>> /\ next_actions = <<>> /\ s.cycle_root # None
       THEN Push(EvalDefine_closeCycle(s, s.cycle_root, TRUE))
       ELSE Push(Out(s, next_actions))

\* builtin_call after engine.call returned: one result per solution, then
\* the completion, sent on behalf of the EvalBuiltIn record
RECURSIVE builtin_call_results(_, _, _, _)
builtin_call_results(callback, term, results, i) ==
    IF i > Len(results) THEN notifyComplete(callback, None)
    ELSE LET n == Len(TermOf(term).args)
             res_pass == <<term>> \o SubSeq(results[i].result, n + 1, Len(results[i].result))
         IN notifyResult(callback, res_pass, results[i].node, FALSE, None)
            \o builtin_call_results(callback, term, results, i + 1)

\* a nested execute returns to the builtin_call that started it
ReturnToCaller(s, solutions) ==
    LET n == Len(frames)
        caller == frames[n - 1]
        cb == Top.cb
        callback == EvalNode("EvalBuiltIn", CALL1, <<cb.term>>, cb.parent, s.pointer,
                             cb.identifier, cb.transform, None)
        Go(t) == IF Failed(t.s) THEN Abort(t.s)
                 ELSE Resume(t.s, [SubSeq(frames, 1, n - 1) EXCEPT
                                      ![n - 1].actions = t.actions, ![n - 1].phase = "loop"])
        Queue(acts) ==
            IF caller.phase = "init_wait"
            THEN Resume(s, [SubSeq(frames, 1, n - 1) EXCEPT
                               ![n - 1].actions = Reverse(acts), ![n - 1].phase = "loop"])
            ELSE Go(AfterMessage(s, caller.actions, acts, FALSE, s.pointer))
    IN Queue(builtin_call_results(callback, cb.term, solutions, 1))

\* the execute that a call/N built-in starts: engine.call(term, subcall=True)
Nested(sub) ==
    Frame("start", TRUE, sub.term, sub.node_id, sub.context, sub)

\* StackBasedEngine.call: a query is posed to the engine
Call ==
    /\ status # "running"
    /\ Len(history) < MaxRuns
    /\ \E query \in database.queries :
         LET node_id == find(query)
         IN IF node_id = None
            THEN /\ status' = "error"
                 /\ error' = [NoError EXCEPT !.kind = "_UnknownClause"]
                 /\ history' = Append(history, Outcome(query, "_UnknownClause", <<>>, pointer))
                 /\ UNCHANGED <<frames>>
            ELSE /\ status' = "running"
                 /\ error' = NoError
                 /\ frames' = << Frame("start", FALSE, query, node_id, query.args, NoSub) >>
                 /\ UNCHANGED <<history>>
    /\ UNCHANGED <<prog, database, unknown, stack, stack_size, pointer, cycle_root, cache, target,
                   tlog, elog>>

\* execute, up to the loop: the first eval
ExecuteEnter ==
    /\ status = "running"
    /\ Top.phase = "start"
    /\ \E asc \in BOOLEAN :
         LET n == Len(frames)
             Go(r) ==
                 \* builtin_call turns the _UnknownClause of the nested call into
                 \* UnknownClause with the signature and location of the call
                 IF r.s.err.kind = "_UnknownClause" /\ Top.subcall
                 THEN Abort(RaiseUnknownClause(Engine(asc), Top.cb.sig, Top.cb.location))
                 ELSE IF Failed(r.s) THEN Abort(r.s)
                 ELSE IF r.sub.pending
                 THEN Resume(r.s, Append([frames EXCEPT ![n].phase = "init_wait"],
                                         Nested(r.sub)))
                 ELSE Resume(r.s, [frames EXCEPT ![n].phase = "loop",
                                                 ![n].actions = Reverse(r.actions)])
         IN Go(eval(Engine(asc), Top.node_id,
                    KW(Top.context, None, None, FALSE, <<>>, NoOrigin)))

\* execute: a result or a completion addressed to None ends the execute
Deliver ==
    /\ status = "running"
    /\ Top.phase = "loop"
    /\ Top.actions # <<>>
    /\ Last(Top.actions).obj = None
    /\ Last(Top.actions).act \in {"r", "c"}
    /\ LET m == Last(Top.actions)
           n == Len(frames)
           s == Engine(TRUE)
           solutions == IF m.act = "r"
                        THEN Append(Top.solutions, [result |-> m.result, node |-> m.node])
                        ELSE Top.solutions
       IN IF m.act = "r" /\ ~m.is_last
          THEN Resume(s, [frames EXCEPT ![n].actions = Front(Top.actions),
                                        ![n].solutions = solutions])
          ELSE IF Top.subcall THEN ReturnToCaller(s, solutions)
          ELSE IF m.act = "r" /\ s.pointer # 0
          THEN Abort(Raise(s, "InvalidEngineState", "Stack not empty at end of execution!", None))
          ELSE IF m.act = "r" THEN Return(shrink_stack(s), solutions)
          ELSE Return(s, solutions)

\* execute: a call below the cycle root closes the cycle first
CloseCycleFirst ==
    /\ status = "running"
    /\ Top.phase = "loop"
    /\ Top.actions # <<>>
    /\ Last(Top.actions).obj # None
    /\ Last(Top.actions).act = "e"
    /\ cycle_root # None
    /\ Last(Top.actions).parent < stack[cycle_root].pointer
    /\ \E asc \in BOOLEAN :
         LET m == Last(Top.actions)
             n == Len(frames)
             Go(t) == IF Failed(t.s) THEN Abort(t.s)
                      ELSE Resume(t.s, [frames EXCEPT ![n].actions = t.actions])
             Push(c) == Go(AfterMessage(c.s, Front(Top.actions), c.actions \o <<m>>,
                                        FALSE, m.obj))
         IN Push(EvalDefine_closeCycle(Engine(asc), cycle_root, TRUE))

\* execute: a call is evaluated
Evaluate ==
    /\ status = "running"
    /\ Top.phase = "loop"
    /\ Top.actions # <<>>
    /\ Last(Top.actions).obj # None
    /\ Last(Top.actions).act = "e"
    /\ ~(cycle_root # None /\ Last(Top.actions).parent < stack[cycle_root].pointer)
    /\ \E asc \in BOOLEAN :
         LET m == Last(Top.actions)
             n == Len(frames)
             Go(t) == IF Failed(t.s) THEN Abort(t.s)
                      ELSE Resume(t.s, [frames EXCEPT ![n].actions = t.actions])
             Push(r) ==
                 IF r.s.err.kind = "_UnknownClause"
                 THEN Abort(RaiseUnknownClause(Engine(asc), <<"unknown">>, None))
                 ELSE IF Failed(r.s) THEN Abort(r.s)
                 ELSE IF r.sub.pending
                 THEN Resume(r.s, Append([frames EXCEPT ![n].phase = "loop_wait",
                                                        ![n].actions = Front(Top.actions)],
                                         Nested(r.sub)))
                 ELSE Go(AfterMessage(r.s, Front(Top.actions), r.actions, FALSE, r.s.pointer))
         IN Push(eval(Engine(asc), m.obj,
                      KW(m.context, m.parent, m.identifier, TRUE, <<>>, NoOrigin)))

\* the newResult method of the record in slot p
Record_newResult(s, p, m) ==
    LET type == s.stack[p].type
    IN IF type = "EvalOr" THEN EvalOr_newResult(s, p, m.result, m.node, m.source, m.is_last)
       ELSE IF type = "EvalAnd" THEN EvalAnd_newResult(s, p, m.result, m.node, m.source, m.is_last)
       ELSE IF type = "EvalNot" THEN EvalNot_newResult(s, p, m.result, m.node, m.source, m.is_last)
       ELSE EvalDefine_newResult(s, p, m.result, m.node, m.source, m.is_last)

\* the complete method of the record in slot p
Record_complete(s, p, m) ==
    LET type == s.stack[p].type
    IN IF type = "EvalOr" THEN EvalOr_complete(s, p, m.source)
       ELSE IF type = "EvalAnd" THEN EvalAnd_complete(s, p, m.source)
       ELSE IF type = "EvalNot" THEN EvalNot_complete(s, p, m.source)
       ELSE EvalDefine_complete(s, p, m.source)

\* execute: a result or a completion is handed to the record it addresses
Dispatch(act) ==
    /\ status = "running"
    /\ Top.phase = "loop"
    /\ Top.actions # <<>>
    /\ Last(Top.actions).obj # None
    /\ Last(Top.actions).act = act
    /\ \E asc \in BOOLEAN :
         LET m == Last(Top.actions)
             n == Len(frames)
             s == Engine(asc)
             Go(t) == IF Failed(t.s) THEN Abort(t.s)
                      ELSE Resume(t.s, [frames EXCEPT ![n].actions = t.actions])
             Push(r) == Go(AfterMessage(r.s, Front(Top.actions), r.actions, r.cleanUp, m.obj))
         IN IF m.obj >= s.stack_size
            THEN Abort(Raise(s, "InvalidEngineState", "Non-existing pointer", None))
            ELSE IF s.stack[m.obj] = NoRec
            THEN Abort(Raise(s, "InvalidEngineState", "Invalid node at given pointer", None))
            ELSE IF act = "r" THEN Push(Record_newResult(s, m.obj, m))
            ELSE Push(Record_complete(s, m.obj, m))

DispatchResult == Dispatch("r")

DispatchComplete == Dispatch("c")

\* execute as a function of the engine state at its start, for a run that
\* starts no nested execute: the outcome, the solutions and the engine at
\* the end.  The sets are iterated in the order s.ascending throughout.
\* One turn of the loop of execute:
execute_step(st) ==
    LET s == st.s
        actions == st.actions
        Done(outcome, sols, t) ==
            [outcome |-> outcome, solutions |-> sols, s |-> t, actions |-> <<>>]
        Go(t) == IF Failed(t.s) THEN Done(t.s.err.kind, <<>>, t.s)
                 ELSE [st EXCEPT !.s = t.s, !.actions = t.actions]
        Called(m, r) ==
            IF r.s.err.kind = "_UnknownClause" THEN Done("UnknownClause", <<>>, s)
            ELSE IF Failed(r.s) THEN Done(r.s.err.kind, <<>>, r.s)
            ELSE IF r.sub.pending THEN Done("nested", <<>>, r.s)
            ELSE Go(AfterMessage(r.s, Front(actions), r.actions, FALSE, r.s.pointer))
        Closed(m, c) == Go(AfterMessage(c.s, Front(actions), c.actions \o <<m>>, FALSE, m.obj))
        Handled(m, r) == Go(AfterMessage(r.s, Front(actions), r.actions, r.cleanUp, m.obj))
        Step(m) ==
            IF m.act \in {"r", "c"} /\ m.obj = None
            THEN IF m.act = "c" THEN Done("ok", st.solutions, s)
                 ELSE IF ~m.is_last
                 THEN [st EXCEPT !.actions = Front(actions),
                                 !.solutions = Append(@, [result |-> m.result, node |-> m.node])]
                 ELSE IF s.pointer # 0 THEN Done("InvalidEngineState", <<>>, s)
                 ELSE Done("ok", Append(st.solutions, [result |-> m.result, node |-> m.node]),
                           shrink_stack(s))
            ELSE IF m.act = "e"
            THEN IF s.cycle_root # None /\ m.parent < s.stack[s.cycle_root].pointer
                 THEN Closed(m, EvalDefine_closeCycle(s, s.cycle_root, TRUE))
                 ELSE Called(m, eval(s, m.obj, KW(m.context, m.parent, m.identifier, TRUE,
                                                  <<>>, NoOrigin)))
            ELSE IF m.obj >= s.stack_size \/ s.stack[m.obj] = NoRec
            THEN Done("InvalidEngineState", <<>>, s)
            ELSE IF m.act = "r" THEN Handled(m, Record_newResult(s, m.obj, m))
            ELSE Handled(m, Record_complete(s, m.obj, m))
    IN IF actions = <<>> THEN Done("InvalidEngineState", <<>>, s)
       ELSE Step(Last(actions))

\* the loop of execute, until it returns or raises
RECURSIVE execute_loop(_)
execute_loop(st) ==
    IF st.outcome # "running" THEN st ELSE execute_loop(execute_step(st))

execute(s, node_id, context) ==
    LET First(r) ==
            IF Failed(r.s)
            THEN [outcome |-> r.s.err.kind, solutions |-> <<>>, s |-> r.s, actions |-> <<>>]
            ELSE IF r.sub.pending
            THEN [outcome |-> "nested", solutions |-> <<>>, s |-> r.s, actions |-> <<>>]
            ELSE execute_loop([outcome |-> "running", solutions |-> <<>>, s |-> r.s,
                               actions |-> Reverse(r.actions)])
    IN First(eval(s, node_id, KW(context, None, None, FALSE, <<>>, NoOrigin)))

\* execute: the actions ran out before anything was delivered to None
Exhausted ==
    /\ status = "running"
    /\ Top.phase = "loop"
    /\ Top.actions = <<>>
    /\ Abort(Raise(Engine(TRUE), "InvalidEngineState", "Engine did not complete correctly!", None))

Init ==
    /\ prog \in DOMAIN Programs
    /\ database = Programs[prog]
    /\ unknown \in {UNKNOWN_ERROR, UNKNOWN_FAIL}
    /\ stack = [i \in 0..(InitialStackSize - 1) |-> NoRec]
    /\ stack_size = InitialStackSize
    /\ pointer = 0
    /\ cycle_root = None
    /\ cache = DefineCache_new
    /\ target = <<>>
    /\ tlog = <<>>
    /\ elog = <<>>
    /\ frames = <<>>
    /\ status = "idle"
    /\ error = NoError
    /\ history = <<>>

Next ==
    \/ Call
    \/ ExecuteEnter
    \/ Deliver
    \/ CloseCycleFirst
    \/ Evaluate
    \/ DispatchResult
    \/ DispatchComplete
    \/ Exhausted

Spec == Init /\ [][Next]_vars

(***************************************************************************)
(* The transform chain on its own.  A record in slot 0 carries a chain to   *)
(* which closures are added; the chain is then used by the three places     *)
(* that apply one: notifyResult, the cache-hit replay of eval_define and    *)
(* its ground-active branch.  history holds the last use and its inputs,    *)
(* frames[1].actions the messages it returned.  All tuples have two         *)
(* components, so every closure applies to the output of every other.       *)
(***************************************************************************)
\* Transformations.__init__: an empty chain, on a record with parent 1
InitTransform ==
    /\ prog = "tab"
    /\ database = Programs[prog]
    /\ unknown = UNKNOWN_ERROR
    /\ \E identifier \in {None, 4} :
         stack = [i \in 0..(InitialStackSize - 1) |->
                     IF i = 0 THEN EvalNode("EvalNode", None, <<>>, 1, 0, identifier, <<>>, None)
                     ELSE NoRec]
    /\ stack_size = InitialStackSize
    /\ pointer = 1
    /\ cycle_root = None
    /\ cache = DefineCache_new
    /\ target = <<>>
    /\ tlog = <<>>
    /\ elog = <<>>
    /\ frames = <<>>
    /\ status = "idle"
    /\ error = NoError
    /\ history = <<>>

\* transform.addFunction(result_transform), as eval_call and eval_clause do
AddFunction ==
    /\ Len(stack[0].transform) < MaxChain
    /\ \E f \in {ClauseTransform(<<-2, -1>>), ClauseTransform(<<-1, 5>>),
                  CallTransform(<<-1, -1>>, <<0, 0>>), CallTransform(<<5, -2>>, <<0, 0>>)} :
         stack' = [stack EXCEPT ![0].transform = addFunction(@, f)]
    /\ frames' = <<>>
    /\ history' = <<>>
    /\ UNCHANGED <<prog, database, unknown, stack_size, pointer, cycle_root, cache, target,
                   tlog, elog, status, error>>

\* the record notifies its parent of a result
NotifyResult ==
    /\ \E result \in {<<5, 5>>, <<5, 6>>, <<6, 5>>, <<6, 6>>}, is_last \in BOOLEAN :
         /\ history' = << [op |-> "notifyResult", results |-> << Entry(result, <<3>>) >>,
                           is_last |-> is_last] >>
         /\ frames' = << [Frame("loop", FALSE, Query(<<>>, <<>>), None, <<>>, NoSub)
                            EXCEPT !.actions = notifyResult(stack[0], result, 3, is_last, None)] >>
    /\ UNCHANGED <<prog, database, unknown, stack, stack_size, pointer, cycle_root, cache,
                   target, tlog, elog, status, error>>

\* eval_define finds the goal in the cache and replays its results to a
\* caller that passed the chain as transform
EvalDefineCached ==
    /\ \E n \in 1..2 :
         \E results \in [1..n -> {Entry(r, <<t>>) : r \in {<<5, 5>>, <<5, 6>>, <<6, 5>>},
                                                   t \in {3, NODE_FALSE}}] :
            /\ history' = << [op |-> "cached", results |-> results, is_last |-> FALSE] >>
            /\ frames' = << [Frame("loop", FALSE, Query(<<>>, <<>>), None, <<>>, NoSub)
                               EXCEPT !.actions =
                                  eval_define_cached(results, 1,
                                      KW(<<>>, stack[0].parent, stack[0].identifier, TRUE,
                                         stack[0].transform, NoOrigin))] >>
    /\ UNCHANGED <<prog, database, unknown, stack, stack_size, pointer, cycle_root, cache,
                   target, tlog, elog, status, error>>

\* eval_define finds the goal active, ground and with its one result
EvalDefineGroundActive ==
    /\ \E result \in {<<5, 5>>, <<5, 6>>, <<6, 5>>, <<6, 6>>} :
         /\ history' = << [op |-> "ground_active", results |-> << Entry(result, <<3>>) >>,
                           is_last |-> TRUE] >>
         /\ frames' = << [Frame("loop", FALSE, Query(<<>>, <<>>), None, <<>>, NoSub)
                            EXCEPT !.actions =
                               eval_define_queue(<< Entry(result, <<3>>) >>, 1,
                                   KW(<<>>, stack[0].parent, stack[0].identifier, TRUE,
                                      stack[0].transform, NoOrigin))] >>
    /\ UNCHANGED <<prog, database, unknown, stack, stack_size, pointer, cycle_root, cache,
                   target, tlog, elog, status, error>>

NextTransform ==
    \/ AddFunction
    \/ NotifyResult
    \/ EvalDefineCached
    \/ EvalDefineGroundActive

SpecTransform == InitTransform /\ [][NextTransform]_vars

(***************************************************************************)
(* Properties.                                                             *)
(***************************************************************************)

\* C1: for a program with no negative cycle, no indirect-call cycle and no
\* unknown predicate, the actions never run out before the outer caller got
\* its last result or its complete: no execute ends with InvalidEngineState
\* 'Engine did not complete correctly!'.
C1_NeverRunsOutOfActions ==
    (database.clean /\ status = "error")
        => error.message # "Engine did not complete correctly!"

\* C2: at every return of a top-level execute the pointer is 0 and every
\* slot of the arena is empty.
C2_ArenaEmptyAtReturn ==
    status = "returned" => /\ pointer = 0
                           /\ \A i \in DOMAIN stack : stack[i] = NoRec

\* C3 as stated: for `p :- p.` alone, query p returns a solution whose node
\* is an Or that has its own id among its disjuncts.
C3_SelfReferencingOr ==
    (prog = "cyc" /\ status = "returned") =>
        LET solutions == history[Len(history)].solutions
        IN \E i \in 1..Len(solutions) :
              /\ solutions[i].node \in 1..Len(target)
              /\ target[solutions[i].node].type = "or"
              /\ solutions[i].node \in Range(target[solutions[i].node].children)

\* C3: for `p :- p.` alone, query p raises no error and returns: it returns
\* no solution and has created no node in the target.
C3_ReturnsNoSolution ==
    prog = "cyc" =>
        /\ status # "error"
        /\ status = "returned" => /\ history[Len(history)].solutions = <<>>
                                  /\ target = <<>>
                                  /\ pointer = 0

\* the cycle in `p :- p.` was detected and the query returned
C3_Witness ==
    /\ prog = "cyc"
    /\ status = "returned"
    /\ \E i \in 1..Len(elog) : elog[i].ev = "define" /\ elog[i].branch = "cycle_child"

\* C4: for `0.4::p. p :- p.`, query p returns exactly one solution; its node
\* is an Or created with readonly=false that holds the atom of the fact p
\* and received exactly one addDisjunct, whose new child is the Or itself.
C4_OneSolutionSelfDisjunct ==
    prog = "cycf" =>
        /\ status # "error"
        /\ status = "returned" =>
             LET solutions == history[Len(history)].solutions
                 or_node == solutions[1].node
                 created == {i \in 1..Len(tlog) : /\ tlog[i].op = "addOr"
                                                  /\ tlog[i].result = or_node
                                                  /\ ~tlog[i].readonly}
                 disjuncts == {i \in 1..Len(tlog) : /\ tlog[i].op = "addDisjunct"
                                                    /\ tlog[i].args[1] = or_node}
             IN /\ Len(solutions) = 1
                /\ solutions[1].result = <<>>
                /\ or_node \in 1..Len(target)
                /\ target[or_node].type = "or"
                /\ ~target[or_node].readonly
                /\ Cardinality(created) = 1
                /\ \E a \in Range(target[or_node].children) :
                      /\ a \in 1..Len(target)
                      /\ target[a].type = "atom"
                      /\ target[a].key = 2
                /\ Cardinality(disjuncts) = 1
                /\ \A i \in disjuncts : tlog[i].args = <<or_node, or_node>>

\* query p of `0.4::p. p :- p.` returned, and the Or got its self-disjunct
C4_Witness ==
    /\ prog = "cycf"
    /\ status = "returned"
    /\ \E i \in 1..Len(tlog) : tlog[i].op = "addDisjunct"

\* C5: on a fresh engine, when a call re-enters a Define that is active for
\* the same goal and a Not record lies on the parent chain between the call
\* and that Define, the step raises NegativeCycle with that Not's location,
\* whether the active Define has results or not.
C5_NotOnChainRaisesNegativeCycle ==
    [][ (/\ status = "running"
         /\ Len(history) = 0
         /\ Top.phase = "loop"
         /\ Top.actions # <<>>
         /\ Last(Top.actions).act = "e"
         /\ Last(Top.actions).obj # None
         /\ getNode(Last(Top.actions).obj).type = "call"
         /\ ~(cycle_root # None /\ Last(Top.actions).parent < stack[cycle_root].pointer))
        => LET m == Last(Top.actions)
               node == getNode(m.obj)
               goal == <<node.functor, substitute_call_args(node.args, m.context)>>
               \* up[k]: the k-th record above the call
               up[k \in 0..pointer] ==
                   IF k = 0 THEN m.parent
                   ELSE IF up[k - 1] = None THEN None
                   ELSE stack[up[k - 1]].parent
               nots == {k \in 0..pointer :
                           /\ \A l \in 0..k : up[l] # None /\ up[l] # cache.active[goal]
                           /\ stack[up[k]].type = "EvalNot"}
           IN (goal \in DOMAIN cache.active /\ nots # {})
                 => /\ status' = "error"
                    /\ error'.kind = "NegativeCycle"
                    /\ \E k \in nots :
                          error'.location = getNode(stack[up[k]].node_id).location
      ]_vars

\* C6: on a fresh engine, when the goal of a nested execute started by
\* call/N matches a Define that is active in the enclosing evaluation, the
\* nested execute raises IndirectCallCycleError, whether the active Define
\* has results or not.
C6_SubcallOfActiveGoalRaises ==
    [][ (/\ status = "running"
         /\ Len(history) = 0
         /\ Top.phase = "start"
         /\ Top.subcall
         /\ getNode(Top.node_id).type = "define"
         /\ <<getNode(Top.node_id).functor, Top.context>> \in DOMAIN cache.active)
        => (status' = "error" /\ error'.kind = "IndirectCallCycleError")
      ]_vars

\* C7: two executes of the same query on the same engine and target that
\* both return, return the same solution list: the same result tuples with
\* the same node ids in the same order.
C7_SameQuerySameSolutions ==
    \A i, j \in 1..Len(history) :
        (/\ i < j
         /\ history[i].query = history[j].query
         /\ history[i].outcome = "ok"
         /\ history[j].outcome = "ok")
        => history[i].solutions = history[j].solutions

\* a non-ground query returned its two solutions twice
C7_Witness ==
    /\ Len(history) >= 2
    /\ history[1].query = history[2].query
    /\ ~is_ground(history[1].query.args)
    /\ history[1].outcome = "ok"
    /\ history[2].outcome = "ok"
    /\ Len(history[2].solutions) = 2

\* C8: once a goal whose functor is not marked _nocache_ was written to the
\* cache, every later call of it is served from the cache: the step
\* allocates no record, queues no call, and leaves the arena, its pointer,
\* the cycle root and the target unchanged.
C8_ServedFromCache ==
    [][ \A i \in (Len(elog) + 1)..Len(elog') :
           (/\ elog'[i].ev = "define"
            /\ ~is_dont_cache(elog'[i].goal)
            /\ \E j \in 1..Len(elog) : /\ elog[j].ev = "cache"
                                       /\ elog[j].branch = "write"
                                       /\ elog[j].goal = elog'[i].goal)
           => /\ elog'[i].branch = "cache"
              /\ elog'[i].pointer = None
              /\ stack' = stack
              /\ pointer' = pointer
              /\ cycle_root' = cycle_root
              /\ target' = target
              /\ cache' = cache
              /\ Len(frames') = Len(frames)
              /\ \A k \in 1..Len(frames'[Len(frames')].actions) :
                    frames'[Len(frames')].actions[k].act = "e"
                       => frames'[Len(frames')].actions[k] \in Range(Top.actions)
      ]_vars

\* query h of the tabling program returned: the second g(1) was served from
\* the cache and the target holds one atom
C8_Witness ==
    /\ prog = "tab"
    /\ Len(history) = 1
    /\ history[1].query = Query(<<"h">>, <<>>)
    /\ history[1].outcome = "ok"
    /\ Cardinality({i \in 1..Len(target) : target[i].type = "atom"}) = 1
    /\ \E i \in 1..Len(elog) : /\ elog[i].ev = "define"
                               /\ elog[i].branch = "cache"
                               /\ elog[i].goal = <<<<"g">>, <<1>>>>

\* C9: the active map never holds two Define records for one goal: the live
\* Define records that are no cycle children have pairwise distinct goals
\* and are the ones the active map names, and no step replaces the record
\* registered for a goal that is already active.
C9_OneActivePerGoal ==
    /\ [](\A p, q \in DOMAIN stack :
             (/\ stack[p].type = "EvalDefine"
              /\ stack[q].type = "EvalDefine"
              /\ ~stack[p].is_cycle_child
              /\ ~stack[q].is_cycle_child
              /\ Goal(stack[p]) = Goal(stack[q]))
             => /\ p = q
                /\ Goal(stack[p]) \in DOMAIN cache.active
                /\ cache.active[Goal(stack[p])] = p)
    /\ [][ \A g \in DOMAIN cache.active :
              g \in DOMAIN cache'.active => cache'.active[g] = cache.active[g] ]_vars

\* a call of a goal that is active was evaluated while its Define is
\* registered
C9_Witness ==
    /\ status = "running"
    /\ Len(history) = 0
    /\ \E i \in 1..Len(elog) :
          /\ elog[i].ev = "define"
          /\ elog[i].branch \in {"cycle_child", "ground_active"}
          /\ elog[i].goal \in DOMAIN cache.active

\* C10: a goal whose functor begins with _nocache_ is in neither result
\* table of the cache, and every call of it is a full evaluation that
\* allocates a Define record.
C10_NoCacheNeverStored ==
    /\ \A g \in (DOMAIN cache.ground) \cup (DOMAIN cache.non_ground) :
          SubSeq(g[1], 1, Min(Len(NOCACHE), Len(g[1]))) # NOCACHE
    /\ \A i \in 1..Len(elog) :
          (/\ elog[i].ev = "define"
           /\ SubSeq(elog[i].goal[1], 1, Min(Len(NOCACHE), Len(elog[i].goal[1]))) = NOCACHE)
             => elog[i].branch = "new" /\ elog[i].pointer # None

\* both calls of _nocache_g in `h :- _nocache_g, _nocache_g.` were evaluated
\* and completed
C10_Witness ==
    /\ prog = "noc"
    /\ status = "returned"
    /\ Cardinality({i \in 1..Len(elog) : /\ elog[i].ev = "define"
                                         /\ elog[i].branch = "new"
                                         /\ elog[i].goal[1][1] = "_"}) >= 2
    /\ \E i \in 1..Len(elog) : /\ elog[i].ev = "cache"
                               /\ elog[i].goal[1][1] = "_"

\* C11: with unknown = FAIL, a query that reaches a predicate missing from
\* the database returns zero solutions and raises no error, whether the
\* missing predicate is queried at top level (q, z), called from a clause
\* body (p :- q) or reached through call/N (r :- call(q)).
C11_UnknownFailReturnsNothing ==
    (/\ prog = "unk"
     /\ unknown = UNKNOWN_FAIL
     /\ Len(history) >= 1
     /\ history[1].query.functor \in {<<"p">>, <<"r">>, <<"q">>, <<"z">>})
    => /\ history[1].outcome = "ok"
       /\ history[1].solutions = <<>>

\* C12: with unknown = ERROR, an execute that reaches the missing predicate
\* q/0 ends by raising UnknownClause with the signature q/0 and the location
\* of the call site, whether q is the top-level node (query q), a call in a
\* clause body (query p) or the goal of call/N (query r).
C12_UnknownErrorRaisesUnknownClause ==
    (/\ prog = "unk"
     /\ unknown = UNKNOWN_ERROR
     /\ Len(history) = 1
     /\ status # "running"
     /\ history[1].query.functor \in {<<"p">>, <<"r">>, <<"q">>})
    => /\ status = "error"
       /\ error.kind = "UnknownClause"
       /\ error.signature = Signature(<<"q">>, 0)
       /\ error.location # None

\* C17: when the first execute on an engine aborts with NegativeCycle,
\* IndirectCallCycleError, UnknownClause or NonGroundProbabilisticClause, it
\* leaves the engine as a fresh one: pointer 0, no live record in the arena,
\* no cycle root and no entry in the active map.
C17_AbortLeavesFreshEngine ==
    (/\ status = "error"
     /\ Len(history) = 1
     /\ error.kind \in {"NegativeCycle", "IndirectCallCycleError", "UnknownClause",
                        "NonGroundProbabilisticClause"})
    => /\ pointer = 0
       /\ \A i \in DOMAIN stack : stack[i] = NoRec
       /\ cycle_root = None
       /\ DOMAIN cache.active = {}

\* C20: a result flagged is_last that is handed to an Or or to a Define that
\* is no cycle child counts as exactly one completed child: after the step
\* the record's to_complete is one less, or it was 1 and the record is gone.
C20_LastResultCountsOnce ==
    [][ (/\ status = "running"
         /\ Top.phase = "loop"
         /\ Top.actions # <<>>
         /\ Last(Top.actions).act = "r"
         /\ Last(Top.actions).is_last
         /\ Last(Top.actions).obj # None
         /\ Last(Top.actions).obj < stack_size
         /\ stack[Last(Top.actions).obj].type \in {"EvalOr", "EvalDefine"}
         /\ ~stack[Last(Top.actions).obj].is_cycle_child
         /\ status' # "error")
        => LET p == Last(Top.actions).obj
           IN \/ stack[p].to_complete = 1 /\ stack'[p] = NoRec
              \/ /\ stack'[p] # NoRec
                 /\ stack'[p].to_complete = stack[p].to_complete - 1
      ]_vars

\* C19: on an engine on which no execute has aborted, every result or
\* complete message the driver is about to dispatch is addressed to a slot
\* inside the arena that still holds a record, so the driver never raises
\* 'Invalid node at given pointer'.
C19_MessagesReachLiveRecords ==
    (/\ status = "running"
     /\ \A i \in 1..Len(history) : history[i].outcome = "ok"
     /\ Top.phase = "loop"
     /\ Top.actions # <<>>
     /\ Last(Top.actions).act \in {"r", "c"}
     /\ Last(Top.actions).obj # None)
    => /\ Last(Top.actions).obj < stack_size
       /\ stack[Last(Top.actions).obj] # NoRec

\* C18: on an engine on which no execute has aborted, a record that issues
\* calls (And, Or, Not, Define other than a cycle child) is done only when
\* every call it issued has been answered by its one completion signal, and
\* nothing follows a completion signal: in the step in which such a record
\* is cleaned up, no result or complete addressed to it is still waiting in
\* an action list.
C18_NothingAfterCompletion ==
    [][ \A p \in 0..(stack_size - 1) :
          (/\ status = "running"
           /\ status' = "running"
           /\ \A i \in 1..Len(history) : history[i].outcome = "ok"
           /\ stack[p] # NoRec
           /\ stack[p].type \in {"EvalAnd", "EvalOr", "EvalNot", "EvalDefine"}
           /\ ~stack[p].is_cycle_child
           /\ stack'[p] = NoRec)
          => \A f \in 1..Len(frames') : \A k \in 1..Len(frames'[f].actions) :
                ~(/\ frames'[f].actions[k].act \in {"r", "c"}
                  /\ frames'[f].actions[k].obj = p)
      ]_vars

\* C13: execute does not depend on the order in which sets are iterated.
\* Started on a fresh engine and a fresh target, the run that iterates
\* every set in ascending order and the run that iterates every set in
\* descending order end in the same way, return solution sequences of the
\* same tuples, and issue the same target operations, the node ids of the
\* two runs corresponding one to one (the i-th operation of one run
\* returns the node that stands for the node the i-th operation of the
\* other run returns; the children of an Or are compared as sets).
C13_IterationOrderIrrelevant ==
    (/\ status = "running"
     /\ Len(history) = 0
     /\ Len(frames) = 1
     /\ Top.phase = "start")
    => LET Same(a, b) ==
               LET ta == a.s.tlog
                   tb == b.s.tlog
                   Pairs == {<<ta[i].result, tb[i].result>> : i \in 1..Min(Len(ta), Len(tb))}
                            \cup {<<NODE_TRUE, NODE_TRUE>>, <<NODE_FALSE, NODE_FALSE>>}
                   Img(x) == {p[2] : p \in {q \in Pairs : q[1] = x}}
               IN /\ a.outcome = b.outcome
                  /\ Len(a.solutions) = Len(b.solutions)
                  /\ Len(ta) = Len(tb)
                  /\ \A p, q \in Pairs : (p[1] = q[1]) <=> (p[2] = q[2])
                  /\ \A i \in 1..Len(ta) :
                        /\ ta[i].op = tb[i].op
                        /\ Len(ta[i].args) = Len(tb[i].args)
                        /\ IF ta[i].op = "addAtom" THEN ta[i].args = tb[i].args
                           ELSE IF ta[i].op = "addOr"
                           THEN UNION {Img(x) : x \in Range(ta[i].args)} = Range(tb[i].args)
                           ELSE \A j \in 1..Len(ta[i].args) :
                                   <<ta[i].args[j], tb[i].args[j]>> \in Pairs
                  /\ \A i \in 1..Len(a.solutions) :
                        /\ a.solutions[i].result = b.solutions[i].result
                        /\ <<a.solutions[i].node, b.solutions[i].node>> \in Pairs
       IN Same(execute(Engine(TRUE), Top.node_id, Top.context),
               execute(Engine(FALSE), Top.node_id, Top.context))

\* C14: a record whose chain got f1, f2, f3 in that order notifies its
\* parent of a result r with the tuple f1(f2(f3(r))); when some function of
\* the chain returns nothing the chain returns nothing (no result message
\* is sent) and the functions added earlier are not applied; a chain given
\* nothing returns nothing; with an empty chain the tuple is r itself.
C14_ChainAppliesLastAddedFirst ==
    (/\ Len(history) = 1
     /\ history[1].op = "notifyResult")
    => LET F == stack[0].transform
           r == history[1].results[1].result
           out == frames[1].actions
           Ap(f, x) == IF x.ok THEN result_transform(f, x.v) ELSE x
           RECURSIVE Nest(_)
           Nest(i) == IF i > Len(F) THEN [ok |-> TRUE, v |-> r] ELSE Ap(F[i], Nest(i + 1))
           Sent(x) == IF x.ok
                      THEN /\ Len(out) = 1
                           /\ out[1].act = "r"
                           /\ out[1].result = x.v
                      ELSE \A k \in 1..Len(out) : out[k].act # "r"
       IN /\ Sent(Nest(1))
          /\ Len(F) = 0 => Len(out) = 1 /\ out[1].result = r
          /\ Len(F) = 3 => Sent(Ap(F[1], Ap(F[2], Ap(F[3], [ok |-> TRUE, v |-> r]))))
          /\ ~Transformations_apply(F, Len(F), [ok |-> FALSE, v |-> r]).ok

\* C14 witness: a chain of three different functions was applied and the
\* parent got a tuple that differs from r and from what the chain gives
\* when the functions are applied in the order of their addition.
C14_Witness ==
    /\ Len(history) = 1
    /\ history[1].op = "notifyResult"
    /\ Len(stack[0].transform) = 3
    /\ stack[0].transform[1] # stack[0].transform[2]
    /\ stack[0].transform[2] # stack[0].transform[3]
    /\ stack[0].transform[1] # stack[0].transform[3]
    /\ Len(frames[1].actions) = 1
    /\ frames[1].actions[1].act = "r"
    /\ frames[1].actions[1].result # history[1].results[1].result
    /\ LET F == stack[0].transform
           x == history[1].results[1].result
           a == result_transform(F[1], x)
           b == result_transform(F[2], a.v)
           c == result_transform(F[3], b.v)
       IN a.ok /\ b.ok => ~c.ok \/ c.v # frames[1].actions[1].result

\* C15: where a chain drops a result, exactly one completion still reaches
\* the parent if the result was the last one, and nothing reaches it if it
\* was not: notifyResult sends one complete for a dropped is_last result
\* and nothing for a dropped other result; the replay of cached results
\* sends one message per result that is kept, plus one complete when the
\* last result is not kept, and no other complete; the ground-active
\* branch sends one complete in place of its dropped result.
C15_DroppedLastStillCompletes ==
    Len(history) = 1
    => LET F == stack[0].transform
           h == history[1]
           out == frames[1].actions
           Ap(f, x) == IF x.ok THEN result_transform(f, x.v) ELSE x
           RECURSIVE Nest(_, _)
           Nest(i, r) == IF i > Len(F) THEN [ok |-> TRUE, v |-> r] ELSE Ap(F[i], Nest(i + 1, r))
           Dropped(i) == ~Nest(1, h.results[i].result).ok
           Kept == {i \in 1..Len(h.results) :
                      h.results[i].nodes[1] # NODE_FALSE /\ ~Dropped(i)}
           n == Len(h.results)
           OneComplete == /\ Len(out) = 1
                          /\ out[1].act = "c"
                          /\ out[1].obj = stack[0].parent
                          /\ out[1].source = stack[0].identifier
       IN /\ (h.op = "notifyResult" /\ Dropped(1))
                => IF h.is_last THEN OneComplete ELSE out = <<>>
          /\ (h.op = "ground_active" /\ Dropped(1)) => OneComplete
          /\ (h.op = "cached" /\ \E i \in 1..n : Dropped(i))
                => /\ Len(out) = Cardinality(Kept) + (IF n \in Kept THEN 0 ELSE 1)
                   /\ \A k \in 1..Len(out) :
                         /\ out[k].obj = stack[0].parent
                         /\ (out[k].act = "c" \/ out[k].is_last) <=> (k = Len(out))
                         /\ out[k].act = "c" => n \notin Kept

\* C15 witness: a non-empty chain has dropped a result flagged is_last in
\* notifyResult, and the parent got a message all the same.
C15_Witness ==
    /\ Len(history) = 1
    /\ Len(stack[0].transform) >= 1
    /\ LET F == stack[0].transform
           h == history[1]
           lastr == h.results[Len(h.results)]
       IN /\ ~Transformations_call(F, lastr.result).ok
          /\ lastr.nodes[1] # NODE_FALSE
          /\ h.op = "notifyResult" /\ h.is_last
          /\ frames[1].actions # <<>>

\* C16: the results that an Or or a Define (other than a cycle child) on a
\* cycle has sent to its parent and that are still to be delivered reach the
\* parent in the order in which the record first received their tuples: of
\* two such messages, the one popped first is for the tuple held earlier.
\* A message is attributed to the record by its destination, by the node it
\* carries (the node the record holds for the tuple) and by the tuple as the
\* record's transform passes it on.
C16_DeliveredInFirstReceivedOrder ==
    \A p \in 0..(stack_size - 1) :
      (/\ status = "running"
       /\ \A h \in 1..Len(history) : history[h].outcome = "ok"
       /\ Top.phase = "loop"
       /\ stack[p] # NoRec
       /\ stack[p].type \in {"EvalOr", "EvalDefine"}
       /\ ~stack[p].is_cycle_child
       /\ stack[p].on_cycle
       /\ stack[p].parent # None)
      => LET rs == stack[p].results.results
             From(m, i) ==
                 /\ m.act = "r"
                 /\ m.obj = stack[p].parent
                 /\ rs[i].nodes = <<m.node>>
                 /\ Transformations_call(stack[p].transform, rs[i].result)
                      = [ok |-> TRUE, v |-> m.result]
         IN \A k, l \in 1..Len(Top.actions) : \A i, j \in 1..Len(rs) :
              (k < l /\ From(Top.actions[k], i) /\ From(Top.actions[l], j)) => j <= i

\* C21: when the last outstanding completion reaches a Define that is not a
\* cycle child, the same step writes its collapsed results to the cache (one
\* node per tuple, in the order held, with a row per tuple; a ground goal
\* without results is stored as failed; a goal that is not to be cached is
\* not written) and removes the goal from the active map.  Off-cycle the
\* step sends the parent one result per held tuple, the last one flagged
\* is_last, or a bare complete when there is none (a tuple the transform
\* drops is not sent, a dropped last one becomes a complete); on-cycle it
\* sends the complete only, after the forward of a tuple that arrived with
\* this very message.  After every step each entry of the active map names
\* a live Define for that goal that has completions outstanding.
C21_CompletionWritesAndReplays ==
    [][ LET n == Len(frames)
            m == Last(Top.actions)
            p == m.obj
            self == stack[p]
            goal == <<getNode(self.node_id).functor, self.context>>
            before == [i \in 1..Len(self.results.results) |-> self.results.results[i].result]
            isnew == m.act = "r" /\ \A i \in 1..Len(before) : before[i] # m.result
            held == IF isnew THEN Append(before, m.result) ELSE before
            nocache == SubSeq(goal[1], 1, Min(9, Len(goal[1]))) = NOCACHE
            ground == \A i \in 1..Len(goal[2]) : goal[2][i] >= 1
            Pushed == LET old == Front(Top.actions)
                          now == frames'[n].actions
                      IN [k \in 1..(Len(now) - Len(old)) |-> now[Len(now) + 1 - k]]
            RECURSIVE ToParent(_)
            ToParent(q) ==
                IF q = <<>> THEN <<>>
                ELSE (IF q[1].obj = self.parent
                      THEN << <<q[1].act, q[1].result, q[1].is_last>> >> ELSE <<>>)
                     \o ToParent(Tail(q))
            Sent(t, last) ==
                LET r == Transformations_call(self.transform, t)
                IN IF r.ok THEN << <<"r", r.v, last>> >>
                   ELSE IF last THEN << <<"c", <<>>, FALSE>> >> ELSE <<>>
            RECURSIVE Replay(_)
            Replay(i) == IF i > Len(held) THEN <<>>
                         ELSE Sent(held[i], i = Len(held)) \o Replay(i + 1)
            Completes ==
                /\ status = "running"
                /\ status' = "running"
                /\ Len(frames') = n
                /\ Top.phase = "loop"
                /\ Top.actions # <<>>
                /\ m.act \in {"r", "c"}
                /\ p # None
                /\ p < stack_size
                /\ self # NoRec
                /\ self.type = "EvalDefine"
                /\ ~self.is_cycle_child
                /\ self.to_complete = 1
                /\ (m.act = "c" \/ m.is_last)
            Cached ==
                nocache \/
                IF ground
                THEN IF held = <<>>
                     THEN goal \in DOMAIN cache'.ground /\ cache'.ground[goal] = NODE_FALSE
                     ELSE <<goal[1], held[1]>> \in DOMAIN cache'.ground
                ELSE /\ goal \in DOMAIN cache'.non_ground
                     /\ Len(cache'.non_ground[goal]) = Len(held)
                     /\ \A i \in 1..Len(held) :
                          /\ cache'.non_ground[goal][i].result = held[i]
                          /\ Len(cache'.non_ground[goal][i].nodes) = 1
                          /\ <<goal[1], held[i]>> \in DOMAIN cache'.ground
                          /\ cache'.ground[<<goal[1], held[i]>>]
                               = cache'.non_ground[goal][i].nodes[1]
            Deactivated == goal \notin DOMAIN cache'.active
            Replayed ==
                IF ~self.on_cycle
                THEN ToParent(Pushed) = (IF held = <<>> THEN << <<"c", <<>>, FALSE>> >>
                                         ELSE Replay(1))
                ELSE ToParent(Pushed) = (IF isnew THEN Sent(m.result, FALSE) ELSE <<>>)
                                        \o << <<"c", <<>>, FALSE>> >>
            ActiveLive ==
                \A g \in DOMAIN cache'.active :
                   /\ cache'.active[g] \in 0..(stack_size' - 1)
                   /\ stack'[cache'.active[g]] # NoRec
                   /\ stack'[cache'.active[g]].type = "EvalDefine"
                   /\ ~stack'[cache'.active[g]].is_cycle_child
                   /\ stack'[cache'.active[g]].to_complete > 0
                   /\ <<getNode(stack'[cache'.active[g]].node_id).functor,
                        stack'[cache'.active[g]].context>> = g
        IN /\ Completes => Cached /\ Deactivated /\ Replayed
           /\ ActiveLive
      ]_vars

\* C21 witness: the last outstanding completion is about to reach a Define
\* on a cycle that holds a result.
C21_Witness ==
    /\ status = "running"
    /\ Top.phase = "loop"
    /\ Top.actions # <<>>
    /\ Last(Top.actions).act \in {"r", "c"}
    /\ Last(Top.actions).obj # None
    /\ Last(Top.actions).obj < stack_size
    /\ stack[Last(Top.actions).obj] # NoRec
    /\ stack[Last(Top.actions).obj].type = "EvalDefine"
    /\ ~stack[Last(Top.actions).obj].is_cycle_child
    /\ stack[Last(Top.actions).obj].to_complete = 1
    /\ (Last(Top.actions).act = "c" \/ Last(Top.actions).is_last)
    /\ stack[Last(Top.actions).obj].on_cycle
    /\ Len(stack[Last(Top.actions).obj].results.results) >= 1

\* C22: an Or or a Define that is not a cycle child sends each distinct
\* tuple to its parent exactly once.  A record is off its cycle first and on
\* it from some step on, never off again.  When it handles a message it
\* sends, on a cycle, the tuple of the message if it is new and nothing
\* else, also at completion; off a cycle, nothing until it completes and
\* then every tuple it holds.  The step that puts it on a cycle sends every
\* tuple it holds and changes none.  (A tuple is sent as the record's
\* transform passes it on; one the transform drops is not sent.)
C22_EachTupleForwardedOnce ==
    [][ LET n == Len(frames)
            Tuples(rec) == [i \in 1..Len(rec.results.results) |-> rec.results.results[i].result]
            Buf(rec) == /\ rec # NoRec
                        /\ rec.type \in {"EvalOr", "EvalDefine"}
                        /\ ~rec.is_cycle_child
            Same(p) == /\ Buf(stack[p])
                       /\ Buf(stack'[p])
                       /\ stack'[p].type = stack[p].type
                       /\ stack'[p].node_id = stack[p].node_id
                       /\ stack'[p].context = stack[p].context
                       /\ stack'[p].parent = stack[p].parent
            Pushed == LET old == Front(Top.actions)
                          now == frames'[n].actions
                      IN [k \in 1..(Len(now) - Len(old)) |-> now[Len(now) + 1 - k]]
            RECURSIVE ToParent(_, _)
            ToParent(q, par) ==
                IF q = <<>> THEN <<>>
                ELSE (IF q[1].act = "r" /\ q[1].obj = par THEN <<q[1].result>> ELSE <<>>)
                     \o ToParent(Tail(q), par)
            RECURSIVE Keep(_, _)
            Keep(F, ts) ==
                IF ts = <<>> THEN <<>>
                ELSE (IF Transformations_call(F, ts[1]).ok
                      THEN <<Transformations_call(F, ts[1]).v>> ELSE <<>>)
                     \o Keep(F, Tail(ts))
            Running == /\ status = "running"
                       /\ status' = "running"
                       /\ Top.phase = "loop"
                       /\ Top.actions # <<>>
                       /\ Len(frames') = n
            m == Last(Top.actions)
            Receives(p) == /\ Running
                           /\ m.act \in {"r", "c"}
                           /\ m.obj = p
                           /\ Buf(stack[p])
            IsNew(p) == m.act = "r" /\ \A i \in 1..Len(Tuples(stack[p])) :
                                          Tuples(stack[p])[i] # m.result
            Held(p) == IF IsNew(p) THEN Append(Tuples(stack[p]), m.result)
                       ELSE Tuples(stack[p])
            \* what the record sends when it handles a message
            OnMessage(p) ==
                Receives(p) =>
                  ToParent(Pushed, stack[p].parent) =
                     Keep(stack[p].transform,
                          IF stack[p].on_cycle
                          THEN (IF IsNew(p) THEN <<m.result>> ELSE <<>>)
                          ELSE IF stack'[p] = NoRec THEN Held(p)
                          ELSE <<>>)
            \* what the record sends when it is put on a cycle
            OnCycle(p) ==
                (Running /\ Same(p) /\ ~stack[p].on_cycle /\ stack'[p].on_cycle)
                  => /\ ~Receives(p)
                     /\ Tuples(stack'[p]) = Tuples(stack[p])
                     /\ ToParent(Pushed, stack[p].parent)
                          = Keep(stack[p].transform, Tuples(stack[p]))
            \* a record stays on its cycle, and sends nothing in other steps
            Stays(p) ==
                (status = "running" /\ status' = "running" /\ Same(p))
                  => /\ stack[p].on_cycle => stack'[p].on_cycle
                     /\ (Running /\ ~Receives(p) /\ stack'[p].on_cycle = stack[p].on_cycle)
                           => Tuples(stack'[p]) = Tuples(stack[p])
        IN \A p \in 0..(stack_size - 1) : OnMessage(p) /\ OnCycle(p) /\ Stays(p)
      ]_vars

\* C22 witness: the last outstanding completion is about to reach an Or on
\* a cycle that holds two tuples.
C22_Witness ==
    /\ status = "running"
    /\ Top.phase = "loop"
    /\ Top.actions # <<>>
    /\ Last(Top.actions).act = "c"
    /\ Last(Top.actions).obj # None
    /\ Last(Top.actions).obj < stack_size
    /\ stack[Last(Top.actions).obj] # NoRec
    /\ stack[Last(Top.actions).obj].type = "EvalOr"
    /\ stack[Last(Top.actions).obj].on_cycle
    /\ stack[Last(Top.actions).obj].to_complete = 1
    /\ Len(stack[Last(Top.actions).obj].results.results) >= 2

\* C23: addDisjunct is only invoked on an Or that was created with
\* readonly = false and that does not belong to a completed Define: the Or
\* a step appends a disjunct to is mutable and is not, before the step, the
\* node of a row in the cache of completed results.
C23_DisjunctsOnlyOnOpenMutableOrs ==
    [][ LET Completed(node) ==
                \/ \E k \in DOMAIN cache.ground : cache.ground[k] = node
                \/ \E g \in DOMAIN cache.non_ground :
                      \E i \in 1..Len(cache.non_ground[g]) :
                         cache.non_ground[g][i].nodes = <<node>>
        IN \A i \in 1..Len(tlog') :
              (i > Len(tlog) /\ tlog'[i].op = "addDisjunct")
              => /\ ~tlog'[i].readonly
                 /\ ~Completed(tlog'[i].args[1])
      ]_vars

\* C24: when eval_define finds the goal active and does not take the
\* ground-with-results shortcut, the step allocates a new Define in a free
\* slot and marks it is_cycle_child, appends that slot to cycle_children of
\* the active record, leaves the active record's result set collapsed with
\* the same tuples, and queues one result per tuple the active record
\* holds, with its collapsed node and not flagged is_last, addressed to the
\* new record and popped first.  A cycle child that receives a result sends
\* it to its own parent through its transform, with the same node and
\* is_last flag, and is cleaned up exactly when the result is the last.
C24_DetectionRegistersAndReplays ==
    [][ LET n == Len(frames)
            e == elog'[Len(elog')]
            q == e.pointer
            a == cache.active[e.goal]
            Tuples(rec) == [i \in 1..Len(rec.results.results) |-> rec.results.results[i].result]
            Pushed == LET old == Front(Top.actions)
                          now == frames'[n].actions
                      IN [k \in 1..(Len(now) - Len(old)) |-> now[Len(now) + 1 - k]]
            RECURSIVE To(_, _)
            To(msgs, obj) ==
                IF msgs = <<>> THEN <<>>
                ELSE (IF msgs[1].obj = obj
                      THEN << <<msgs[1].act, msgs[1].result, msgs[1].node, msgs[1].is_last>> >>
                      ELSE <<>>)
                     \o To(Tail(msgs), obj)
            Detected ==
                /\ status = "running"
                /\ Len(elog') = Len(elog) + 1
                /\ e.ev = "define"
                /\ e.branch = "cycle_child"
            Registered ==
                /\ stack[q] = NoRec
                /\ stack'[q] # NoRec
                /\ stack'[q].type = "EvalDefine"
                /\ stack'[q].is_cycle_child
                /\ <<getNode(stack'[q].node_id).functor, stack'[q].context>> = e.goal
                /\ e.goal \in DOMAIN cache.active
                /\ stack'[a].cycle_children = Append(stack[a].cycle_children, q)
                /\ stack'[a].results.collapsed
                /\ Tuples(stack'[a]) = Tuples(stack[a])
                /\ \A i \in 1..Len(stack'[a].results.results) :
                      Len(stack'[a].results.results[i].nodes) = 1
            Replayed ==
                (status' = "running" /\ Len(frames') = n)
                => /\ SelectSeq(To(Pushed, q), LAMBDA x : x[1] = "r")
                        = [i \in 1..Len(Tuples(stack[a])) |->
                             <<"r", stack'[a].results.results[i].result,
                               stack'[a].results.results[i].nodes[1], FALSE>>]
                   /\ \A i \in 1..Len(Tuples(stack[a])) :
                         Pushed[i].obj = q /\ Pushed[i].act = "r"
            m == Last(Top.actions)
            ToChild ==
                /\ status = "running"
                /\ status' = "running"
                /\ Len(frames') = n
                /\ Top.phase = "loop"
                /\ Top.actions # <<>>
                /\ m.act = "r"
                /\ m.obj # None
                /\ m.obj < stack_size
                /\ stack[m.obj] # NoRec
                /\ stack[m.obj].type = "EvalDefine"
                /\ stack[m.obj].is_cycle_child
            Conduit ==
                LET self == stack[m.obj]
                    t == Transformations_call(self.transform, m.result)
                IN /\ To(Pushed, self.parent)
                        = (IF t.ok THEN << <<"r", t.v, m.node, m.is_last>> >>
                           ELSE IF m.is_last THEN << <<"c", <<>>, None, FALSE>> >>
                           ELSE <<>>)
                   /\ stack'[m.obj] = IF m.is_last THEN NoRec ELSE self
        IN /\ Detected => Registered /\ Replayed
           /\ ToChild => Conduit
      ]_vars

\* C24 witness: a cycle child is about to receive a result that the active
\* record held when the cycle was detected.
C24_Witness ==
    /\ status = "running"
    /\ Top.phase = "loop"
    /\ Top.actions # <<>>
    /\ Last(Top.actions).act = "r"
    /\ Last(Top.actions).obj # None
    /\ Last(Top.actions).obj < stack_size
    /\ stack[Last(Top.actions).obj] # NoRec
    /\ stack[Last(Top.actions).obj].is_cycle_child
    /\ elog # <<>>
    /\ elog[Len(elog)].branch = "cycle_child"
    /\ elog[Len(elog)].pointer = Last(Top.actions).obj

(***************************************************************************)
(* C25: when a cycle is detected on an active Define that is older than    *)
(* the current cycle root, then after the step the older Define is the     *)
(* cycle root and carries is_cycle_root; the old root has is_cycle_root    *)
(* cleared, on_cycle set and an empty cycle_close; the cycle_close of the  *)
(* new root holds every record of the old root's cycle_close and the new   *)
(* cycle child; and every record on the parent chain from the old root up  *)
(* to the new root is on_cycle.                                            *)
(***************************************************************************)
C25_RootSwap ==
    [][ LET e == elog'[Len(elog')]
            q == e.pointer
            a == cache.active[e.goal]
            old == cycle_root
            RECURSIVE Painted(_)
            Painted(x) ==
                IF x = a THEN TRUE
                ELSE /\ x # None
                     /\ stack'[x] # NoRec
                     /\ stack'[x].on_cycle
                     /\ Painted(stack'[x].parent)
            Swapped ==
                /\ status = "running"
                /\ Len(elog') = Len(elog) + 1
                /\ e.ev = "define"
                /\ e.branch = "cycle_child"
                /\ old # None
                /\ a < stack[old].pointer
        IN Swapped =>
             /\ stack'[a].is_cycle_root
             /\ ~stack'[old].is_cycle_root
             /\ stack'[old].on_cycle
             /\ stack'[old].cycle_close = {}
             /\ stack[old].cycle_close \subseteq stack'[a].cycle_close
             /\ q \in stack'[a].cycle_close
             /\ status' = "running" => /\ cycle_root' = a
                                       /\ Painted(old)
      ]_vars

\* a swap has just happened: the last detection made the older Define the root,
\* and a demoted root with a cycle child of its own lies on the cycle below it
C25_Witness ==
    /\ status = "running"
    /\ cycle_root # None
    /\ elog # <<>>
    /\ elog[Len(elog)].ev = "define"
    /\ elog[Len(elog)].branch = "cycle_child"
    /\ elog[Len(elog)].pointer \in stack[cycle_root].cycle_close
    /\ \E o \in (cycle_root + 1)..(stack_size - 1) :
          /\ stack[o] # NoRec
          /\ stack[o].type = "EvalDefine"
          /\ stack[o].cycle_children # <<>>
          /\ stack[o].on_cycle
          /\ ~stack[o].is_cycle_root
          /\ stack[o].cycle_close = {}
          /\ stack[o].parent # cycle_root
          /\ \E i \in 1..Len(stack[o].cycle_children) :
                stack[o].cycle_children[i] \in stack[cycle_root].cycle_close

(***************************************************************************)
(* C26: after every cycle detection every record on the parent chain from  *)
(* the new cycle child up to, and excluding, the cycle root is on_cycle,   *)
(* also when the walk of notifyCycle stops early at a record that was      *)
(* on_cycle already.  The cycle root is the one cycleDetected leaves in    *)
(* the driver: the active Define if no root was set or the active Define   *)
(* is older than the root, else the root that was set.                     *)
(***************************************************************************)
C26_ChainOnCycle ==
    [][ LET e == elog'[Len(elog')]
            q == e.pointer
            a == cache.active[e.goal]
            root == IF cycle_root = None \/ a < cycle_root THEN a ELSE cycle_root
            RECURSIVE Painted(_)
            Painted(x) ==
                IF x = root THEN TRUE
                ELSE /\ x # None
                     /\ stack'[x] # NoRec
                     /\ stack'[x].on_cycle
                     /\ Painted(stack'[x].parent)
            Detected ==
                /\ status = "running"
                /\ status' = "running"
                /\ Len(elog') = Len(elog) + 1
                /\ e.ev = "define"
                /\ e.branch = "cycle_child"
        IN Detected => /\ stack'[q] # NoRec
                       /\ Painted(stack'[q].parent)
      ]_vars

\* the walk of the last detection stopped early: the new cycle child lies below
\* a Define that was the cycle root before and is on_cycle now, and a record
\* between the two is on_cycle, so the walk from the child never reached the root
C26_Witness ==
    /\ status = "running"
    /\ cycle_root # None
    /\ elog # <<>>
    /\ elog[Len(elog)].ev = "define"
    /\ elog[Len(elog)].branch = "cycle_child"
    /\ LET q == elog[Len(elog)].pointer
           RECURSIVE Below(_, _)
           \* y lies on the parent chain of x, below the cycle root
           Below(x, y) ==
               IF x \in {None, cycle_root} THEN FALSE
               ELSE IF x = y THEN TRUE
               ELSE Below(stack[x].parent, y)
       IN /\ q \in stack[cycle_root].cycle_close
          /\ stack[q] # NoRec
          /\ \E o \in (cycle_root + 1)..(q - 1) :
                /\ stack[o] # NoRec
                /\ stack[o].type = "EvalDefine"
                /\ stack[o].cycle_children # <<>>
                /\ stack[o].on_cycle
                /\ \E x \in (o + 1)..(q - 1) :
                      /\ stack[x] # NoRec
                      /\ stack[x].on_cycle
                      /\ Below(stack[q].parent, x)
                      /\ Below(stack[x].parent, o)

(***************************************************************************)
(* C27: closeCycle on the cycle root emits exactly one complete to each    *)
(* record of the root's cycle_close and leaves that set empty, and the     *)
(* root stays in the arena.  A closure is a step that leaves the driver    *)
(* without a cycle root while the record that was the root (or that the    *)
(* step's detection made the root) is still in the arena with its flag.    *)
(* The completes are counted for a closure ahead of a call, where the set  *)
(* is the one the root holds before the step.                              *)
(***************************************************************************)
C27_ClosureCompletesAndEmpties ==
    [][ LET n == Len(frames)
            e == elog'[Len(elog')]
            Detected ==
                /\ Len(elog') = Len(elog) + 1
                /\ e.ev = "define"
                /\ e.branch = "cycle_child"
            root == IF Detected
                    THEN IF cycle_root = None \/ cache.active[e.goal] < cycle_root
                         THEN cache.active[e.goal] ELSE cycle_root
                    ELSE cycle_root
            Closed ==
                /\ status = "running"
                /\ status' = "running"
                /\ Len(frames') = n
                /\ cycle_root' = None
                /\ root # None
                /\ stack'[root] # NoRec
                /\ stack'[root].is_cycle_root
            AheadOfCall ==
                /\ Closed
                /\ cycle_root # None
                /\ Top.actions # <<>>
                /\ Last(Top.actions).act = "e"
            Pushed == LET old == Front(Top.actions)
                          now == frames'[n].actions
                      IN [k \in 1..(Len(now) - Len(old)) |-> now[Len(now) + 1 - k]]
            Completes == SelectSeq(Pushed, LAMBDA x : x.act = "c")
        IN /\ AheadOfCall =>
                /\ \A c \in stack[root].cycle_close :
                      Cardinality({i \in 1..Len(Completes) : Completes[i].obj = c}) = 1
                /\ \A i \in 1..Len(Completes) :
                      Completes[i].obj \in stack[root].cycle_close
           /\ Closed => stack'[root].cycle_close = {}
      ]_vars

(***************************************************************************)
(* C28: while a cycle root is set, a call whose parent slot is smaller     *)
(* than the root's is not evaluated: the step that pops it closes the      *)
(* cycle, allocates and logs nothing, and leaves the call in the queue     *)
(* below one complete for each record of the root's cycle_close.  Every    *)
(* step pops the last action and pushes on top of the others, so the call  *)
(* is popped again only when the completes and all that they triggered     *)
(* are gone.                                                               *)
(***************************************************************************)
C28_OlderCallClosesCycleFirst ==
    [][ LET n == Len(frames)
            k == Len(Top.actions)
            now == frames'[n].actions
            Older ==
                /\ status = "running"
                /\ Top.phase = "loop"
                /\ Top.actions # <<>>
                /\ Last(Top.actions).obj # None
                /\ Last(Top.actions).act = "e"
                /\ cycle_root # None
                /\ Last(Top.actions).parent < cycle_root
            Step ==
                /\ status = "running"
                /\ status' = "running"
                /\ Len(frames') = n
                /\ Top.phase = "loop"
                /\ Top.actions # <<>>
        IN /\ Older =>
                /\ status' = "running"
                /\ Len(frames') = n
                /\ cycle_root' = None
                /\ stack' = stack
                /\ pointer' = pointer
                /\ cache' = cache
                /\ elog' = elog
                /\ tlog' = tlog
                /\ Len(now) = k + Cardinality(stack[cycle_root].cycle_close)
                /\ SubSeq(now, 1, k) = Top.actions
                /\ {now[i].obj : i \in (k + 1)..Len(now)} = stack[cycle_root].cycle_close
                /\ \A i \in (k + 1)..Len(now) : now[i].act = "c"
           /\ Step =>
                /\ Len(now) >= k - 1
                /\ SubSeq(now, 1, k - 1) = Front(Top.actions)
      ]_vars

\* the cycle has just been closed ahead of a call: the call waits in the queue
\* below the completes for the cycle children of a Define that lies above the
\* call's parent in the arena
C28_Witness ==
    /\ status = "running"
    /\ cycle_root = None
    /\ Top.phase = "loop"
    /\ \E k \in 1..(Len(Top.actions) - 1) :
          LET m == Top.actions[k]
          IN /\ m.act = "e"
             /\ m.obj # None
             /\ \E r \in 0..(stack_size - 1) :
                   /\ stack[r] # NoRec
                   /\ stack[r].type = "EvalDefine"
                   /\ stack[r].is_cycle_root
                   /\ m.parent < r
                   /\ {Top.actions[i].obj : i \in (k + 1)..Len(Top.actions)}
                        = stack[r].cycle_close
                   /\ \A i \in (k + 1)..Len(Top.actions) :
                         /\ Top.actions[i].act = "c"
                         /\ stack[Top.actions[i].obj] # NoRec
                         /\ stack[Top.actions[i].obj].is_cycle_child

(***************************************************************************)
(* C29: in every state the driver's cycle_root is unset or names a live    *)
(* Define of the arena whose is_cycle_root is set, and no other live       *)
(* record carries is_cycle_root: a root whose cycle was closed, or that a  *)
(* swap demoted, has lost the flag.                                        *)
(***************************************************************************)
C29_OnlyTheRootIsFlagged ==
    /\ cycle_root # None =>
          /\ stack[cycle_root] # NoRec
          /\ stack[cycle_root].type = "EvalDefine"
          /\ stack[cycle_root].is_cycle_root
    /\ \A p \in 0..(stack_size - 1) :
          (/\ stack[p] # NoRec
           /\ stack[p].type = "EvalDefine"
           /\ stack[p].is_cycle_root) => p = cycle_root

(***************************************************************************)
(* C30: whenever a ground Define with registered cycle children receives   *)
(* a result it does not hold yet, the driver's cycle_root is set and the   *)
(* children are live cycle children; the step raises nothing, sends each   *)
(* child this result once with is_last set, and leaves no child in the     *)
(* cycle_close of the root.                                                *)
(***************************************************************************)
C30_GroundResultReleasesChildren ==
    [][ LET n == Len(frames)
            m == Last(Top.actions)
            self == stack[m.obj]
            kids == {self.cycle_children[i] : i \in 1..Len(self.cycle_children)}
            Pushed == LET old == Front(Top.actions)
                          now == frames'[n].actions
                      IN [k \in 1..(Len(now) - Len(old)) |-> now[Len(now) + 1 - k]]
            Receives ==
                /\ status = "running"
                /\ Top.phase = "loop"
                /\ Top.actions # <<>>
                /\ m.act = "r"
                /\ m.obj # None
                /\ m.obj < stack_size
                /\ self # NoRec
                /\ self.type = "EvalDefine"
                /\ ~self.is_cycle_child
                /\ self.is_ground
                /\ self.cycle_children # <<>>
                /\ \A i \in 1..Len(self.results.results) :
                      self.results.results[i].result # m.result
        IN Receives =>
             /\ cycle_root # None
             /\ \A c \in kids : /\ stack[c] # NoRec
                                /\ stack[c].type = "EvalDefine"
                                /\ stack[c].is_cycle_child
             /\ status' # "error"
             /\ (status' = "running" /\ Len(frames') = n) =>
                  /\ \A c \in kids :
                        LET to == SelectSeq(Pushed, LAMBDA x : x.obj = c)
                        IN /\ Len(to) = 1
                           /\ to[1].act = "r"
                           /\ to[1].is_last
                           /\ to[1].result = m.result
                  /\ stack'[cycle_root] # NoRec
                       => stack'[cycle_root].cycle_close \cap kids = {}
      ]_vars

\* a ground Define has just sent its result to a cycle child: the message
\* with is_last is in the queue and the child is no longer in the root's set
C30_Witness ==
    /\ status = "running"
    /\ cycle_root # None
    /\ Top.phase = "loop"
    /\ \E k \in 1..Len(Top.actions) :
          LET m == Top.actions[k]
          IN /\ m.act = "r"
             /\ m.is_last
             /\ m.obj # None
             /\ stack[m.obj] # NoRec
             /\ stack[m.obj].type = "EvalDefine"
             /\ stack[m.obj].is_cycle_child
             /\ m.obj \notin stack[cycle_root].cycle_close
             /\ \E p \in 0..(stack_size - 1) :
                   /\ stack[p] # NoRec
                   /\ stack[p].type = "EvalDefine"
                   /\ stack[p].is_ground
                   /\ \E i \in 1..Len(stack[p].cycle_children) :
                         stack[p].cycle_children[i] = m.obj
                   /\ \E i \in 1..Len(stack[p].results.results) :
                         stack[p].results.results[i].result = m.result

(***************************************************************************)
(* C31: in the branch of eval_define taken for a ground goal whose active  *)
(* Define already has results, the active record holds exactly one result  *)
(* and exactly one message goes to the caller, a result flagged last or a  *)
(* complete; the assertion len(queue) == 1 never fails, no record is       *)
(* allocated and the active record has is_cycle_parent set.                *)
(***************************************************************************)
C31_GroundActiveOneMessage ==
    [][ LET n == Len(frames)
            e == elog'[Len(elog')]
            a == cache.active[e.goal]
            m == Last(Top.actions)
            Pushed == LET old == Front(Top.actions)
                          now == frames'[n].actions
                      IN [k \in 1..(Len(now) - Len(old)) |-> now[Len(now) + 1 - k]]
            Taken ==
                /\ status = "running"
                /\ Len(elog') = Len(elog) + 1
                /\ e.ev = "define"
                /\ e.branch = "ground_active"
        IN /\ Taken =>
                /\ e.goal \in DOMAIN cache.active
                /\ stack[a] # NoRec
                /\ stack[a].is_ground
                /\ Len(stack[a].results.results) = 1
                /\ Len(stack'[a].results.results) = 1
                /\ stack'[a].is_cycle_parent
                /\ pointer' = pointer
                /\ \A q \in 0..(stack_size - 1) : stack[q] = NoRec => stack'[q] = NoRec
                /\ (status' = "running" /\ Len(frames') = n) =>
                     /\ Len(Pushed) = 1
                     /\ Pushed[1].obj = m.parent
                     /\ \/ Pushed[1].act = "c"
                        \/ /\ Pushed[1].act = "r"
                           /\ Pushed[1].is_last
                           /\ Pushed[1].node = stack'[a].results.results[1].nodes[1]
           /\ status' = "error" =>
                ~(error'.kind = "AssertionError" /\ error'.message = "len(queue) == 1")
      ]_vars

\* the branch has just been taken: the caller is about to receive the one
\* result of the active record, flagged last
C31_Witness ==
    /\ status = "running"
    /\ elog # <<>>
    /\ elog[Len(elog)].ev = "define"
    /\ elog[Len(elog)].branch = "ground_active"
    /\ elog[Len(elog)].goal \in DOMAIN cache.active
    /\ Top.phase = "loop"
    /\ Top.actions # <<>>
    /\ LET a == cache.active[elog[Len(elog)].goal]
           m == Last(Top.actions)
       IN /\ stack[a] # NoRec
          /\ stack[a].is_ground
          /\ stack[a].is_cycle_parent
          /\ Len(stack[a].results.results) = 1
          /\ m.act = "r"
          /\ m.is_last
          /\ m.node = stack[a].results.results[1].nodes[1]

\* C32: a completing Define finds its goal absent from the completed tables:
\* while a run is going no goal is both active and cached, and no step
\* replaces the node of a ground row that is already in the cache.
C32_CompletionWritesFreshRows ==
    [][ /\ status = "running" =>
              \A g \in DOMAIN cache.active : ~DefineCache_contains(cache, g)
        /\ (status = "running" /\ status' # "error") =>
              \A k \in DOMAIN cache.ground :
                  k \in DOMAIN cache.ground' /\ cache.ground'[k] = cache.ground[k] ]_vars

(***************************************************************************)
(* C33: a live Define that is not a cycle child has a collapsed result set *)
(* exactly if it is on a cycle, has cycle children or is a cycle parent; a *)
(* live Or has a collapsed result set exactly if it is on a cycle; none of *)
(* the collapsed / not-collapsed assertions of newResult and of            *)
(* ResultSet.__setitem__ ever fails.                                       *)
(***************************************************************************)
C33_CollapsedIffOnCycle ==
    /\ \A i \in 0..(stack_size - 1) :
          /\ (stack[i].type = "EvalDefine" /\ ~stack[i].is_cycle_child) =>
                (stack[i].results.collapsed
                    <=> (stack[i].on_cycle \/ isCycleParent(stack[i])))
          /\ stack[i].type = "EvalOr" =>
                (stack[i].results.collapsed <=> stack[i].on_cycle)
    /\ ~(/\ error.kind = "AssertionError"
         /\ error.message \in {"results.collapsed", "not results.collapsed",
                               "not self.collapsed"})

\* a running state with a collapsed on-cycle Or holding a result next to an
\* uncollapsed Or holding one, and a collapsed Define that is a cycle parent
\* or on a cycle next to an uncollapsed Define holding a result
C33_Witness ==
    /\ status = "running"
    /\ \E i, j \in 0..(stack_size - 1) :
          /\ stack[i].type = "EvalOr" /\ stack[i].on_cycle
          /\ stack[i].results.collapsed /\ Len(stack[i].results.results) > 0
          /\ stack[j].type = "EvalDefine" /\ ~stack[j].is_cycle_child
          /\ stack[j].results.collapsed /\ Len(stack[j].results.results) > 0
    /\ \E i \in 0..(stack_size - 1) :
          /\ stack[i].type \in {"EvalOr", "EvalDefine"} /\ ~stack[i].is_cycle_child
          /\ ~stack[i].results.collapsed /\ Len(stack[i].results.results) > 0

(***************************************************************************)
(* C34: the identifier is threaded unchanged: a queued result or complete  *)
(* addressed to a record that issues its calls with its own identifier (a  *)
(* Define that is no cycle child, an Or, a Not) carries that identifier,   *)
(* and one addressed to an And carries no identifier or a ground node.     *)
(***************************************************************************)
C34_IdentifierThreadedUnchanged ==
    status = "running" =>
        \A f \in 1..Len(frames) : \A k \in 1..Len(frames[f].actions) :
            LET m == frames[f].actions[k]
            IN (m.act \in {"r", "c"} /\ m.obj # None /\ stack[m.obj].type # "None") =>
                  IF stack[m.obj].type = "EvalAnd"
                  THEN m.source = None \/ m.source \in 0..Len(target)
                  ELSE ~stack[m.obj].is_cycle_child => m.source = stack[m.obj].identifier

(***************************************************************************)
(* C35: a live And has to_complete >= 1, equal to the first conjunct if it *)
(* has not signalled completion plus the second-conjunct calls not yet     *)
(* completed (a call is pending as a queued call, as a live child record   *)
(* or as a queued completion signal); the And is cleaned up only when      *)
(* to_complete drops from 1 to 0, forwarding a completion to its parent,   *)
(* and no result for it is then left unconjoined in the queue.             *)
(***************************************************************************)
C35_AndCountsItsConjuncts ==
    [][ LET Pos == UNION {{<<f, k>> : k \in 1..Len(frames[f].actions)} :
                             f \in 1..Len(frames)}
            M(x) == frames[x[1]].actions[x[2]]
            Pending(p, first) ==
                Cardinality({x \in Pos : /\ M(x).act = "e" /\ M(x).parent = p
                                         /\ (M(x).identifier = None) = first})
              + Cardinality({i \in 0..(stack_size - 1) :
                                /\ stack[i] # NoRec /\ stack[i].parent = p
                                /\ (stack[i].identifier = None) = first})
              + Cardinality({x \in Pos : /\ M(x).obj = p
                                         /\ (M(x).source = None) = first
                                         /\ \/ M(x).act = "c"
                                            \/ M(x).act = "r" /\ M(x).is_last})
        IN \A p \in 0..(stack_size - 1) :
              (status = "running" /\ stack[p].type = "EvalAnd") =>
                 /\ stack[p].to_complete >= 1
                 /\ Pending(p, TRUE) \in {0, 1}
                 /\ stack[p].to_complete = Pending(p, TRUE) + Pending(p, FALSE)
                 /\ (stack'[p] = NoRec /\ status' # "error") =>
                       /\ stack[p].to_complete = 1
                       /\ \E k \in 1..Len(frames'[Len(frames)].actions) :
                             LET m == frames'[Len(frames)].actions[k]
                             IN /\ m.obj = stack[p].parent
                                /\ m.act = "c" \/ (m.act = "r" /\ m.is_last)
                       /\ \A f \in 1..Len(frames') : \A k \in 1..Len(frames'[f].actions) :
                             frames'[f].actions[k].act \in {"r", "c"}
                                => frames'[f].actions[k].obj # p ]_vars

C37_OnCycleOrExtendsItsDisjunction ==
    [][ LET n == Len(frames)
            m == Last(Top.actions)
            p == m.obj
            self == stack[p]
            Pushed == LET old == Front(Top.actions)
                          now == frames'[n].actions
                      IN [k \in 1..(Len(now) - Len(old)) |-> now[Len(now) + 1 - k]]
            Case == /\ status = "running" /\ Top.phase = "loop" /\ Top.actions # <<>>
                    /\ m.act = "r" /\ m.obj # None /\ m.obj < stack_size
                    /\ self.type = "EvalOr" /\ self.on_cycle
            known == \E i \in 1..Len(self.results.results) :
                        self.results.results[i].result = m.result
            e == tlog'[Len(tlog')]
        IN Case =>
            /\ status' = "running" /\ Len(frames') = n
            /\ Len(tlog') = Len(tlog) + 1
            /\ known =>
                  /\ e.op = "addDisjunct"
                  /\ e.args = <<ResultSet_getitem(self.results, m.result), m.node>>
                  /\ Len(target') = Len(target)
                  /\ target'[e.args[1]].type = "or"
                  /\ ~target'[e.args[1]].readonly
                  /\ target'[e.args[1]].children = Append(target[e.args[1]].children, m.node)
                  /\ Pushed = <<>>
                  /\ stack'[p].results = self.results
            /\ ~known =>
                  /\ e.op = "addOr"
                  /\ e.args = <<m.node>>
                  /\ ~e.readonly
                  /\ e.result = Len(target) + 1
                  /\ Len(target') = Len(target) + 1
                  /\ Len(Pushed) >= 1
                  /\ Pushed[1].act = "r"
                  /\ Pushed[1].obj = self.parent
                  /\ Pushed[1].node = e.result
                  /\ ~Pushed[1].is_last
                  /\ \A k \in 2..Len(Pushed) : Pushed[k].act = "c"
                  /\ stack'[p] # NoRec =>
                        stack'[p].results.results
                            = Append(self.results.results, Entry(m.result, <<e.result>>)) ]_vars

\* the target has a mutable Or that was extended by addDisjunct while an Or
\* record on a cycle holding that node is live
C37_Witness ==
    /\ status = "running"
    /\ tlog # <<>>
    /\ tlog[Len(tlog)].op = "addDisjunct"
    /\ \E p \in 0..(stack_size - 1) :
          /\ stack[p].type = "EvalOr" /\ stack[p].on_cycle
          /\ \E i \in 1..Len(stack[p].results.results) :
                /\ stack[p].results.results[i].nodes = <<tlog[Len(tlog)].args[1]>>
                /\ Len(target[tlog[Len(tlog)].args[1]].children) >= 2

(***************************************************************************)
(* C38 as stated: a Not pushes nothing while results of its child arrive;  *)
(* the step that takes the child's completion frees the record and pushes  *)
(* exactly one result with its call context: flagged is_last with          *)
(* NODE_TRUE if no child result arrived, else with addNot(addOr(nodes))    *)
(* and followed by a complete.                                             *)
(***************************************************************************)
C38_NotEmitsOneResult ==
    [][ LET n == Len(frames)
            m == Last(Top.actions)
            p == m.obj
            self == stack[p]
            Pushed == LET old == Front(Top.actions)
                          now == frames'[n].actions
                      IN [k \in 1..(Len(now) - Len(old)) |-> now[Len(now) + 1 - k]]
            Case == /\ status = "running" /\ Top.phase = "loop" /\ Top.actions # <<>>
                    /\ m.act \in {"r", "c"} /\ m.obj # None /\ m.obj < stack_size
                    /\ self.type = "EvalNot"
            nodes == IF m.act = "r" /\ m.node # NODE_FALSE THEN self.nodes \cup {m.node}
                     ELSE self.nodes
            t == Transformations_call(self.transform, self.context)
        IN (Case /\ t.ok) =>
            /\ status' = "running" /\ Len(frames') = n
            /\ (m.act = "r" /\ ~m.is_last) =>
                  /\ Pushed = <<>> /\ tlog' = tlog
                  /\ stack'[p] = [self EXCEPT !.nodes = nodes]
            /\ (m.act = "c" \/ m.is_last) =>
                  /\ stack'[p] = NoRec
                  /\ Len(Pushed) >= 1
                  /\ Pushed[1].act = "r"
                  /\ Pushed[1].obj = self.parent
                  /\ Pushed[1].result = t.v
                  /\ nodes = {} =>
                        /\ Pushed[1].node = NODE_TRUE /\ Pushed[1].is_last
                        /\ Len(Pushed) = 1 /\ tlog' = tlog
                  /\ nodes # {} =>
                        /\ Len(tlog') = Len(tlog) + 2
                        /\ tlog'[Len(tlog) + 1].op = "addOr"
                        /\ Range(tlog'[Len(tlog) + 1].args) = nodes
                        /\ tlog'[Len(tlog) + 2].op = "addNot"
                        /\ tlog'[Len(tlog) + 2].args = <<tlog'[Len(tlog) + 1].result>>
                        /\ Pushed[1].node = tlog'[Len(tlog) + 2].result
                        /\ Len(Pushed) = 2 /\ Pushed[2].act = "c"
                        /\ Pushed[2].obj = self.parent ]_vars

(***************************************************************************)
(* C38 amended: a Not pushes nothing while results of its child arrive;    *)
(* the step that takes the child's completion frees the record and pushes  *)
(* at most one result, never flagged is_last, with its call context, and   *)
(* then one complete: the result carries NODE_TRUE if no child result      *)
(* arrived, else addNot(addOr(nodes)), and is left out if that node is     *)
(* NODE_FALSE.                                                             *)
(***************************************************************************)
C38_NotEmitsResultThenComplete ==
    [][ LET n == Len(frames)
            m == Last(Top.actions)
            p == m.obj
            self == stack[p]
            Pushed == LET old == Front(Top.actions)
                          now == frames'[n].actions
                      IN [k \in 1..(Len(now) - Len(old)) |-> now[Len(now) + 1 - k]]
            Case == /\ status = "running" /\ Top.phase = "loop" /\ Top.actions # <<>>
                    /\ m.act \in {"r", "c"} /\ m.obj # None /\ m.obj < stack_size
                    /\ self.type = "EvalNot"
            nodes == IF m.act = "r" /\ m.node # NODE_FALSE THEN self.nodes \cup {m.node}
                     ELSE self.nodes
            t == Transformations_call(self.transform, self.context)
            negated == tlog'[Len(tlog')].result
            Emitted(node) ==
                /\ Len(Pushed) = 2
                /\ Pushed[1].act = "r" /\ Pushed[1].obj = self.parent
                /\ Pushed[1].result = t.v /\ Pushed[1].node = node
                /\ ~Pushed[1].is_last
                /\ Pushed[1].source = self.identifier
        IN (Case /\ t.ok) =>
            /\ status' = "running" /\ Len(frames') = n
            /\ (m.act = "r" /\ ~m.is_last) =>
                  /\ Pushed = <<>> /\ tlog' = tlog
                  /\ stack'[p] = [self EXCEPT !.nodes = nodes]
            /\ (m.act = "c" \/ m.is_last) =>
                  /\ stack'[p] = NoRec
                  /\ Len(Pushed) \in {1, 2}
                  /\ Pushed[Len(Pushed)].act = "c"
                  /\ Pushed[Len(Pushed)].obj = self.parent
                  /\ nodes = {} => tlog' = tlog /\ Emitted(NODE_TRUE)
                  /\ nodes # {} =>
                        /\ Len(tlog') = Len(tlog) + 2
                        /\ tlog'[Len(tlog) + 1].op = "addOr"
                        /\ Range(tlog'[Len(tlog) + 1].args) = nodes
                        /\ tlog'[Len(tlog) + 2].op = "addNot"
                        /\ tlog'[Len(tlog) + 2].args = <<tlog'[Len(tlog) + 1].result>>
                        /\ IF negated = NODE_FALSE THEN Len(Pushed) = 1
                           ELSE Emitted(negated) ]_vars

\* a Not has just completed over two ground nodes: the target's last calls are
\* addOr over two nodes and addNot of that Or, and the next messages are the
\* result with the negated node, not flagged is_last, and the complete
C38_Witness ==
    /\ status = "running" /\ Top.phase = "loop"
    /\ Len(Top.actions) >= 2 /\ Len(tlog) >= 2
    /\ LET r == Top.actions[Len(Top.actions)]
           c == Top.actions[Len(Top.actions) - 1]
           o == tlog[Len(tlog) - 1]
           e == tlog[Len(tlog)]
       IN /\ o.op = "addOr" /\ Len(o.args) = 2
          /\ e.op = "addNot" /\ e.args = <<o.result>>
          /\ r.act = "r" /\ r.node = e.result /\ ~r.is_last
          /\ c.act = "c" /\ c.obj = r.obj

(***************************************************************************)
(* C39 as stated: the driver pops the last action and puts the actions of  *)
(* the step on top, first listed first popped, leaving the actions queued  *)
(* before untouched; a new Define lists its clause calls in the order of   *)
(* the clause index; and when the call of a later clause is popped no      *)
(* record of the subtree of the Define is left.                            *)
(***************************************************************************)
C39_LifoClauseSubtreeDone ==
    [][ LET n == Len(frames)
            m == Last(Top.actions)
            e == elog'[Len(elog')]
            Pushed == LET old == Front(Top.actions)
                          now == frames'[n].actions
                      IN [k \in 1..(Len(now) - Len(old)) |-> now[Len(now) + 1 - k]]
            NewDefine == /\ Len(frames') = n
                         /\ Len(elog') = Len(elog) + 1
                         /\ e.ev = "define" /\ e.branch = "new"
            NextClause ==
                /\ Top.phase = "loop" /\ Top.actions # <<>>
                /\ m.act = "e" /\ m.parent # None
                /\ stack[m.parent].type = "EvalDefine"
                /\ getNode(m.obj).type \in {"fact", "clause"}
                /\ \E k \in 2..Len(ClauseIndex_find(getNode(stack[m.parent].node_id),
                                                    stack[m.parent].context)) :
                      ClauseIndex_find(getNode(stack[m.parent].node_id),
                                       stack[m.parent].context)[k] = m.obj
            Below(i, p) ==
                LET RECURSIVE up(_, _)
                    up(j, d) == IF j = p THEN TRUE
                                ELSE IF j = None \/ d = 0 \/ stack[j] = NoRec THEN FALSE
                                ELSE up(stack[j].parent, d - 1)
                IN i # p /\ stack[i] # NoRec /\ up(stack[i].parent, stack_size)
        IN (status = "running" /\ status' = "running") =>
            /\ \A f \in 1..Len(frames) : f <= Len(frames') =>
                  /\ frames[f].actions # <<>> =>
                        /\ Len(frames'[f].actions) >= Len(frames[f].actions) - 1
                        /\ SubSeq(frames'[f].actions, 1, Len(frames[f].actions) - 1)
                              = Front(frames[f].actions)
                  /\ (f < n /\ Len(frames') >= n) => frames'[f].actions = frames[f].actions
            /\ NewDefine =>
                  LET ch == ClauseIndex_find(getNode(stack'[e.pointer].node_id),
                                             stack'[e.pointer].context)
                  IN /\ Len(Pushed) = Len(ch)
                     /\ \A k \in 1..Len(ch) :
                           /\ Pushed[k].act = "e" /\ Pushed[k].obj = ch[k]
                           /\ Pushed[k].parent = e.pointer
            /\ NextClause => \A i \in 0..(stack_size - 1) : ~Below(i, m.parent) ]_vars

(***************************************************************************)
(* C39 amended: the driver pops the last action and puts the actions of    *)
(* the step on top, first listed first popped, leaving the actions queued  *)
(* before untouched; a new Define lists its clause calls in the order of   *)
(* the clause index; and when the call of a later clause is popped no      *)
(* queued result or complete is addressed to a record of the subtree of    *)
(* the Define (records of it may still be live, waiting on a cycle).       *)
(***************************************************************************)
C39_LifoClauseActionsDone ==
    [][ LET n == Len(frames)
            m == Last(Top.actions)
            e == elog'[Len(elog')]
            Pushed == LET old == Front(Top.actions)
                          now == frames'[n].actions
                      IN [k \in 1..(Len(now) - Len(old)) |-> now[Len(now) + 1 - k]]
            NewDefine == /\ Len(frames') = n
                         /\ Len(elog') = Len(elog) + 1
                         /\ e.ev = "define" /\ e.branch = "new"
            NextClause ==
                /\ Top.phase = "loop" /\ Top.actions # <<>>
                /\ m.act = "e" /\ m.parent # None
                /\ stack[m.parent].type = "EvalDefine"
                /\ getNode(m.obj).type \in {"fact", "clause"}
                /\ \E k \in 2..Len(ClauseIndex_find(getNode(stack[m.parent].node_id),
                                                    stack[m.parent].context)) :
                      ClauseIndex_find(getNode(stack[m.parent].node_id),
                                       stack[m.parent].context)[k] = m.obj
            Below(i, p) ==
                LET RECURSIVE up(_, _)
                    up(j, d) == IF j = p THEN TRUE
                                ELSE IF j = None \/ d = 0 \/ stack[j] = NoRec THEN FALSE
                                ELSE up(stack[j].parent, d - 1)
                IN i # p /\ stack[i] # NoRec /\ up(stack[i].parent, stack_size)
        IN (status = "running" /\ status' = "running") =>
            /\ \A f \in 1..Len(frames) : f <= Len(frames') =>
                  /\ frames[f].actions # <<>> =>
                        /\ Len(frames'[f].actions) >= Len(frames[f].actions) - 1
                        /\ SubSeq(frames'[f].actions, 1, Len(frames[f].actions) - 1)
                              = Front(frames[f].actions)
                  /\ (f < n /\ Len(frames') >= n) => frames'[f].actions = frames[f].actions
            /\ NewDefine =>
                  LET ch == ClauseIndex_find(getNode(stack'[e.pointer].node_id),
                                             stack'[e.pointer].context)
                  IN /\ Len(Pushed) = Len(ch)
                     /\ \A k \in 1..Len(ch) :
                           /\ Pushed[k].act = "e" /\ Pushed[k].obj = ch[k]
                           /\ Pushed[k].parent = e.pointer
            /\ NextClause =>
                  \A f \in 1..n : \A k \in 1..Len(frames[f].actions) :
                      (frames[f].actions[k].act \in {"r", "c"}
                          /\ frames[f].actions[k].obj # None)
                      => ~Below(frames[f].actions[k].obj, m.parent) ]_vars

\* the call of a later clause of a Define is about to be popped while a cycle
\* child created under an earlier clause of that Define is still live
C39_Witness ==
    /\ status = "running" /\ Top.phase = "loop" /\ Top.actions # <<>>
    /\ Last(Top.actions).act = "e"
    /\ Last(Top.actions).parent # None
    /\ getNode(Last(Top.actions).obj).type \in {"fact", "clause"}
    /\ LET p == Last(Top.actions).parent
       IN /\ stack[p].type = "EvalDefine"
          /\ \E k \in 2..Len(getNode(stack[p].node_id).children) :
                getNode(stack[p].node_id).children[k] = Last(Top.actions).obj
          /\ \E i \in 0..(stack_size - 1) :
                /\ stack[i].type = "EvalDefine" /\ stack[i].is_cycle_child
                /\ stack[i].parent = p

\* C40: in every reachable state the arena has stack_size slots, every slot at
\* an index >= pointer is empty and, when pointer > 0, the slot at pointer - 1
\* holds a record; every live record sits at the slot named by its own pointer
\* field and its parent index is smaller than its own index.  Every step
\* (allocation, cleanup, growth) keeps this, a record that is live before and
\* after a step is the same record at the same index, and the capacity only
\* changes by doubling, at the allocation made when pointer equals the
\* capacity and with every old record kept, or by the reset to the initial
\* size once a top-level run has emptied the arena.
C40_ArenaIndicesStayValid ==
    [][ LET ArenaOK(st, sz, ptr) ==
                /\ DOMAIN st = 0..(sz - 1)
                /\ ptr \in 0..sz
                /\ \A i \in 0..(sz - 1) : i >= ptr => st[i] = NoRec
                /\ ptr > 0 => st[ptr - 1] # NoRec
                /\ \A i \in 0..(sz - 1) : st[i] # NoRec =>
                       /\ st[i].pointer = i
                       /\ (st[i].parent = None \/ st[i].parent < i)
            Same(a, b) == /\ a.type = b.type /\ a.node_id = b.node_id
                          /\ a.parent = b.parent /\ a.context = b.context
                          /\ a.identifier = b.identifier
        IN /\ ArenaOK(stack, stack_size, pointer)
           /\ ArenaOK(stack', stack_size', pointer')
           /\ \A i \in 0..(stack_size - 1) :
                 (stack[i] # NoRec /\ i < stack_size' /\ stack'[i] # NoRec)
                 => Same(stack[i], stack'[i])
           /\ stack_size' # stack_size =>
                 \/ /\ stack_size' = 2 * stack_size
                    /\ pointer = stack_size
                    /\ pointer' = pointer + 1
                    /\ \A i \in 0..(stack_size - 1) :
                          stack'[i] # NoRec /\ Same(stack[i], stack'[i])
                 \/ /\ stack_size' = InitialStackSize
                    /\ pointer' = 0 ]_vars

\* the arena has doubled and a record allocated beyond the initial capacity
\* has a live parent at an index below it
C40_Witness ==
    /\ stack_size = 2 * InitialStackSize
    /\ pointer > InitialStackSize
    /\ stack[pointer - 1].parent # None
    /\ stack[pointer - 1].parent < InitialStackSize
    /\ stack[stack[pointer - 1].parent] # NoRec

====
